---- MODULE Spec2Model ----
(***************************************************************************)
(* Vibe time rules of the Sonos controller: the rule store                 *)
(* (vibeTimeRulesStore, household-scoped variant), the interval arithmetic *)
(* it validates with, and the recommendation engine of server.js that      *)
(* matches the stored rules against an hour and a weekday.                 *)
(*                                                                         *)
(* JavaScript values are represented as follows.  A value that may be      *)
(* null/undefined is a sequence of length 0 (null) or 1 (the value): the   *)
(* days field is Null or Arr(<<1, 2>>).  rule.id and rule.rule_type are    *)
(* only tested for truthiness by the code, so the falsy inputs are 0 and   *)
(* "".  Hours are always numbers here, so `typeof x === 'number'` holds.    *)
(***************************************************************************)
EXTENDS Integers, Sequences, FiniteSets, TLC

VARIABLES
    rules,      \* rows of the table vibe_time_rules
    nextId,     \* the id the repository assigns to the next inserted row
    calls,      \* saveVibeTimeRule calls in flight: their position and data
    out,        \* outcome of the operation that ran last
    req,        \* arguments of the operation that ran last
    iv,         \* last evaluation of an interval-arithmetic function
    handler,    \* the playback request being handled: its position and data
    sent,       \* the requests sent to the speaker control API, in order
    speaker_volumes, \* rows of the table speaker_volumes: the volume of each player
    speakerVolumes,\* the volumes map cached by the server process
    tokenRows,  \* rows of the table tokens: the tokens stored for each device
    tokens,     \* the process-wide variable tokens of server.js, Null before its first assignment
    issued,     \* the number of access tokens the authorization server has issued for each device
    flights,    \* the request in progress for each device: its position and data
    oauth_states,\* table oauth_states: the device of each stored state
    callbacks,  \* the requests to /auth/sonos/callback in progress
    exchanges,  \* the token exchanges started for each OAuth state
    initialized,\* the flag initialized of server.js
    initializationPromise,\* the variable initializationPromise: null, or the request whose call created the promise
    stores,     \* speakerVolumes, playlistVibes and hiddenFavorites before the first handler: null, empty or loaded
    invoked,    \* the number of calls ensureInitialized has made of each loader
    requests    \* the requests at the initialization middleware: their position

vars == <<rules, nextId, calls, out, req, iv, handler, sent, speaker_volumes, speakerVolumes, tokenRows, tokens, issued, flights, oauth_states, callbacks, exchanges, initialized, initializationPromise, stores, invoked, requests>>

---------------------------------------------------------------------------
(* Bounds of the model *)

MaxId == 2

\* the number of saveVibeTimeRule calls that run concurrently
NumCallers == 2

---------------------------------------------------------------------------
(* Program constants *)

VALID_VIBES == <<"Down", "Down/Mid", "Mid">>

MaxHour == 23

MaxDay == 6

Hours == 0..MaxHour

WeekDays == 0..MaxDay

Null == <<>>

Arr(a) == <<a>>

IsNull(x) == Len(x) = 0

Range(s) == {s[i] : i \in 1..Len(s)}

---------------------------------------------------------------------------
(* Interval arithmetic *)

\* timeRangeContainsHour with the end hour of a non-wrapping range included
timeRangeContainsHourInclusiveEnd(startHour, endHour, hour) ==
    IF endHour = 0 /\ startHour > 0
    THEN hour >= startHour /\ hour <= 23
    ELSE IF startHour <= endHour
         THEN hour >= startHour /\ hour <= endHour
         ELSE hour >= startHour \/ hour < endHour

\* server.js: whether the range startHour -> endHour contains hour
timeRangeContainsHour(startHour, endHour, hour) ==
    IF endHour = 0 /\ startHour > 0
    THEN hour >= startHour /\ hour <= 23
    ELSE IF startHour <= endHour
         THEN hour >= startHour /\ hour < endHour
         ELSE hour >= startHour \/ hour < endHour

\* the overlap test with the end hours included, as the older store has it:
\* adjacent ranges overlap
timeRangesOverlapInclusiveEnd(start1, end1, start2, end2) ==
    LET hours1 == IF start1 <= end1 THEN start1..end1 ELSE (start1..23) \cup (0..end1)
        hours2 == IF start2 <= end2 THEN start2..end2 ELSE (start2..23) \cup (0..end2)
    IN  hours1 \cap hours2 # {}

RECURSIVE timeRangesOverlap(_, _, _, _)
\* vibeTimeRulesStore: whether two ranges overlap, end hours exclusive
timeRangesOverlap(start1, end1, start2, end2) ==
    IF start1 <= end1 /\ start2 <= end2
    THEN start1 < end2 /\ start2 < end1
    ELSE IF start1 > end1
         THEN \/ timeRangesOverlap(0, end1, start2, end2)
              \/ timeRangesOverlap(start1, 23, start2, end2)
         ELSE IF start2 > end2
              THEN \/ timeRangesOverlap(start1, end1, 0, end2)
                   \/ timeRangesOverlap(start1, end1, start2, 23)
              ELSE FALSE

---------------------------------------------------------------------------
(* Rule store: validation *)

\* rule.rule_type || 'base'
RuleTypeOf(rule) == IF rule.rule_type = "" THEN "base" ELSE rule.rule_type

\* rule.allowed_vibes filtered to the canonical vibes, order kept
ValidVibesOf(allowed_vibes) ==
    SelectSeq(allowed_vibes, LAMBDA vibe : vibe \in Range(VALID_VIBES))

RECURSIVE SortedSeq(_)
\* the elements of a set of numbers as an ascending list
SortedSeq(S) ==
    IF S = {} THEN <<>>
    ELSE LET m == CHOOSE x \in S : \A y \in S : x <= y
         IN  <<m>> \o SortedSeq(S \ {m})

\* [...new Set(days.filter(0 <= day <= 6))].sort()
SanitizedDays(daysArray) ==
    SortedSeq(Range(SelectSeq(daysArray, LAMBDA day : day >= 0 /\ day <= MaxDay)))

\* DaysOf without the filter, the deduplication and the sort
DaysAsSubmitted(rule) ==
    IF RuleTypeOf(rule) = "override" /\ ~IsNull(rule.days)
    THEN Arr(rule.days[1])
    ELSE Null

\* the value of `days` that saveVibeTimeRule computes once the days checks passed
DaysOf(rule) ==
    IF RuleTypeOf(rule) = "override" /\ ~IsNull(rule.days)
    THEN Arr(SanitizedDays(rule.days[1]))
    ELSE Null

ErrHousehold == "Household name is required to save vibe time rule"
ErrHours == "Hours must be between 0 and 23"
ErrNoVibes == "At least one allowed vibe is required"
ErrRuleType == "rule_type must be either base or override"
ErrNoValidVibes == "At least one valid vibe is required"
ErrOverrideDays == "Override rules must specify at least one day"
ErrBaseDays == "Base schedule rules cannot specify days"
ErrBaseSelect == "Failed to validate base schedule overlap"
ErrOverrideSelect == "Failed to validate override overlap"
ErrBaseOverlap == "This base schedule rule overlaps with an existing base schedule rule"
ErrOverrideOverlap == "This override overlaps with an existing override"
ErrNotFound == "Rule not found"
ErrNotOwner == "You can only modify your own rules"
ErrNotOwnerDelete == "You can only delete your own rules"
ErrInvalidId == "Invalid rule ID"
ErrRepository == "repository error"
NoError == ""

\* StructuralError with the canonical filter of allowed_vibes moved before the
\* rule_type check
StructuralErrorVibesFirst(rule, householdName) ==
    IF householdName = "" THEN ErrHousehold
    ELSE IF \/ rule.start_hour < 0 \/ rule.start_hour > 23
            \/ rule.end_hour < 0 \/ rule.end_hour > 23 THEN ErrHours
    ELSE IF Len(rule.allowed_vibes) = 0 THEN ErrNoVibes
    ELSE IF Len(ValidVibesOf(rule.allowed_vibes)) = 0 THEN ErrNoValidVibes
    ELSE IF RuleTypeOf(rule) # "base" /\ RuleTypeOf(rule) # "override" THEN ErrRuleType
    ELSE IF RuleTypeOf(rule) = "override"
         THEN IF IsNull(rule.days) \/ Len(rule.days[1]) = 0 THEN ErrOverrideDays
              ELSE IF Len(SanitizedDays(rule.days[1])) = 0 THEN ErrOverrideDays
              ELSE NoError
         ELSE IF ~IsNull(rule.days) THEN ErrBaseDays
              ELSE NoError

\* the checks of saveVibeTimeRule that precede the overlap validation, in the
\* order of the code; the message of the first one that throws
StructuralError(rule, householdName) ==
    IF householdName = "" THEN ErrHousehold
    ELSE IF \/ rule.start_hour < 0 \/ rule.start_hour > 23
            \/ rule.end_hour < 0 \/ rule.end_hour > 23 THEN ErrHours
    ELSE IF Len(rule.allowed_vibes) = 0 THEN ErrNoVibes
    ELSE IF RuleTypeOf(rule) # "base" /\ RuleTypeOf(rule) # "override" THEN ErrRuleType
    ELSE IF Len(ValidVibesOf(rule.allowed_vibes)) = 0 THEN ErrNoValidVibes
    ELSE IF RuleTypeOf(rule) = "override"
         THEN IF IsNull(rule.days) \/ Len(rule.days[1]) = 0 THEN ErrOverrideDays
              ELSE IF Len(SanitizedDays(rule.days[1])) = 0 THEN ErrOverrideDays
              ELSE NoError
         ELSE IF ~IsNull(rule.days) THEN ErrBaseDays
              ELSE NoError

\* validateBaseScheduleOverlap with the select not restricted to the household
validateBaseScheduleOverlapAnyHousehold(rule, householdName, data, selectError) ==
    IF selectError THEN ErrBaseSelect
    ELSE IF \E existing \in data :
                /\ existing.rule_type = "base"
                /\ ~(rule.id # 0 /\ existing.id = rule.id)
                /\ timeRangesOverlap(rule.start_hour, rule.end_hour,
                                     existing.start_hour, existing.end_hour)
         THEN ErrBaseOverlap
         ELSE NoError

\* validateBaseScheduleOverlap on the rows `data` the select returned
validateBaseScheduleOverlap(rule, householdName, data, selectError) ==
    IF selectError THEN ErrBaseSelect
    ELSE LET existingBaseRules ==
                 {existing \in data :
                     /\ existing.rule_type = "base"
                     /\ existing.household_name = householdName
                     /\ ~(rule.id # 0 /\ existing.id = rule.id)}
         IN  IF \E existing \in existingBaseRules :
                    timeRangesOverlap(rule.start_hour, rule.end_hour,
                                      existing.start_hour, existing.end_hour)
             THEN ErrBaseOverlap
             ELSE NoError

\* validateOverrideOverlap on the rows `data` the select returned
validateOverrideOverlap(rule, householdName, data, selectError) ==
    IF selectError THEN ErrOverrideSelect
    ELSE LET overrideDays == DaysOf(rule)[1]
             existingOverrides ==
                 {existing \in data :
                     /\ existing.rule_type = "override"
                     /\ existing.household_name = householdName
                     /\ ~(rule.id # 0 /\ existing.id = rule.id)
                     /\ ~IsNull(existing.days)
                     /\ Len(existing.days[1]) # 0
                     /\ \E day \in Range(existing.days[1]) : day \in Range(overrideDays)}
         IN  IF \E existing \in existingOverrides :
                    timeRangesOverlap(rule.start_hour, rule.end_hour,
                                      existing.start_hour, existing.end_hour)
             THEN ErrOverrideOverlap
             ELSE NoError

\* the error saveVibeTimeRule throws before it writes, NoError if none
ValidationError(rule, householdName, data, selectError) ==
    IF StructuralError(rule, householdName) # NoError
    THEN StructuralError(rule, householdName)
    ELSE IF RuleTypeOf(rule) = "base"
         THEN validateBaseScheduleOverlap(rule, householdName, data, selectError)
         ELSE validateOverrideOverlap(rule, householdName, data, selectError)

\* the row saveVibeTimeRule writes
RowOf(rule, householdName) ==
    [start_hour     |-> rule.start_hour,
     end_hour       |-> rule.end_hour,
     allowed_vibes  |-> ValidVibesOf(rule.allowed_vibes),
     days           |-> DaysOf(rule),
     rule_type      |-> RuleTypeOf(rule),
     household_name |-> householdName]

WithId(row, id) == [f \in {"id"} \cup DOMAIN row |-> IF f = "id" THEN id ELSE row[f]]

\* the ownership check before an update or a delete: select household_name where id
OwnershipError(id, householdName, data, checkError, notOwner) ==
    IF checkError \/ ~(\E r \in data : r.id = id) THEN ErrNotFound
    ELSE IF (CHOOSE r \in data : r.id = id).household_name # householdName
         THEN notOwner
         ELSE NoError

\* update(row).eq('id', id).eq('household_name', householdName)
UpdateRows(data, id, householdName, row) ==
    {IF r.id = id /\ r.household_name = householdName THEN WithId(row, id) ELSE r :
        r \in data}

\* delete().eq('id', id).eq('household_name', householdName)
DeleteRows(data, id, householdName) ==
    {r \in data : ~(r.id = id /\ r.household_name = householdName)}

---------------------------------------------------------------------------
(* Inputs of the operations *)

Households == {"H1", "H2"}

\* <<start_hour, end_hour>> of the rules the callers submit; <<9, 24>> is out of range
RangeInputs ==
    {<<9, 17>>, <<16, 20>>, <<17, 20>>, <<20, 0>>, <<23, 0>>, <<9, 24>>}

\* "" is an absent rule_type
RuleTypeInputs == {"", "base", "override", "weekly"}

VibesInputs == {<<>>, <<"Chill">>, <<"Mid">>, <<"Down", "Chill">>}

DaysInputs ==
    {Null, Arr(<<>>), Arr(<<9>>), Arr(<<1>>), Arr(<<2>>), Arr(<<2, 1, 2>>), Arr(<<2, 3>>)}

\* 0 is an absent id
IdInputs == 0..MaxId

\* every combination of the inputs above
RuleInputs ==
    [id : IdInputs, range : RangeInputs, allowed_vibes : VibesInputs,
     days : DaysInputs, rule_type : RuleTypeInputs]

\* rules as a well-behaved client sends them: a base rule without days or an
\* override with days
PlainRuleInputs ==
    {in \in [id : IdInputs,
             range : {<<9, 17>>, <<16, 20>>, <<20, 0>>, <<23, 0>>},
             allowed_vibes : {<<"Mid">>, <<"Down", "Chill">>},
             days : {Null, Arr(<<1>>), Arr(<<2, 1, 2>>)},
             rule_type : {"", "override"}] :
        (in.rule_type = "override") <=> ~IsNull(in.days)}

\* the rules the concurrent callers submit
ConcurrentRuleInputs ==
    {in \in PlainRuleInputs :
        in.range \in {<<9, 17>>, <<16, 20>>} /\ in.allowed_vibes = <<"Mid">>}

\* the rule object a caller passes to saveVibeTimeRule
RuleOf(in) ==
    [id            |-> in.id,
     start_hour    |-> in.range[1],
     end_hour      |-> in.range[2],
     allowed_vibes |-> in.allowed_vibes,
     days          |-> in.days,
     rule_type     |-> in.rule_type]

\* which repository call of an operation fails, if any
Faults == {"none", "select", "check", "write"}

NoOut == [op |-> "none", error |-> NoError, id |-> 0]

NoReq == <<>>

NoIv == <<>>

Callers == 1..NumCallers

\* no playback request is being handled
IdleHandler == [pc |-> "idle"]

\* the players whose default volume the settings hold
VolumePlayers == {"RINCON_A", "RINCON_B"}

\* no player has a default volume
NoVolumes == [p \in VolumePlayers |-> Null]

\* the devices (browsers) that use the server
Devices == {"D1", "D2"}

\* clearTokens: { access_token: null, refresh_token: null, expires_at: 0 }
ClearedTokens == [access_token |-> Null, refresh_token |-> Null, expires_at |-> 0]

\* no request of the device is in progress
IdleFlight == [pc |-> "idle"]

\* the values of the OAuth state parameter that requests carry
OAuthStates == {"s1", "s2"}

\* the requests to /auth/sonos/callback that can be in progress together
Callbacks == {1, 2}

\* the table oauth_states with no row
NoStates == [s \in OAuthStates |-> Null]

\* no callback request in progress
IdleCallback == [pc |-> "idle"]

\* the requests that reach the initialization middleware
NumRequests == 3

Requests == 1..NumRequests

\* the module variables ensureInitialized fills, in the order it fills them
Stores == <<"speakerVolumes", "playlistVibes", "hiddenFavorites">>

\* a request that has not arrived yet
IdleRequest == [pc |-> "idle"]

\* no call in flight
IdleCall == [pc |-> "idle", rule |-> <<>>, householdName |-> "", error |-> NoError]

---------------------------------------------------------------------------
(* Rule store: operations, one call at a time.  `log` tells whether the    *)
(* caller's view of the call (arguments and outcome) is recorded.          *)

\* the error a saveVibeTimeRule call throws when it runs alone on the rows
\* `data`, NoError if it returns a row
SaveError(rule, householdName, data, fault) ==
    LET verr == ValidationError(rule, householdName, data, fault = "select")
        oerr == OwnershipError(rule.id, householdName, data, fault = "check", ErrNotOwner)
    IN  IF verr # NoError THEN verr
        ELSE IF rule.id # 0 /\ oerr # NoError THEN oerr
        ELSE IF fault = "write" THEN ErrRepository
        ELSE NoError

\* SavedRows with the overlap validation running after the write
SavedRowsValidatedLate(rule, householdName, data, id, err) ==
    IF err \notin {NoError, ErrBaseOverlap, ErrOverrideOverlap} THEN data
    ELSE IF rule.id # 0
         THEN UpdateRows(data, rule.id, householdName, RowOf(rule, householdName))
         ELSE data \cup {WithId(RowOf(rule, householdName), id)}

\* the table after a saveVibeTimeRule call that ended with err; id is the id
\* the repository gives an inserted row
SavedRows(rule, householdName, data, id, err) ==
    IF err # NoError THEN data
    ELSE IF rule.id # 0
         THEN UpdateRows(data, rule.id, householdName, RowOf(rule, householdName))
         ELSE data \cup {WithId(RowOf(rule, householdName), id)}

\* saveVibeTimeRule(rule, householdName), the whole call; the repository holds
\* ids up to maxId
SaveRuleUpTo(rule, householdName, fault, log, maxId) ==
    \E err \in {SaveError(rule, householdName, rules, fault)} :
        /\ (err = NoError /\ rule.id = 0) => nextId <= maxId
        /\ rules' = SavedRows(rule, householdName, rules, nextId, err)
        /\ nextId' = IF err = NoError /\ rule.id = 0 THEN nextId + 1 ELSE nextId
        /\ out' = IF log
                  THEN [op |-> "save", error |-> err,
                        id |-> IF err # NoError THEN 0
                               ELSE IF rule.id # 0 THEN rule.id ELSE nextId]
                  ELSE out
        /\ req' = IF log THEN <<rule, householdName, fault>> ELSE req
        /\ UNCHANGED <<calls, iv, handler, sent, speaker_volumes, speakerVolumes, tokenRows, tokens, issued, flights, oauth_states, callbacks, exchanges, initialized, initializationPromise, stores, invoked, requests>>

\* saveVibeTimeRule(rule, householdName), the whole call
SaveRule(rule, householdName, fault, log) ==
    SaveRuleUpTo(rule, householdName, fault, log, MaxId)

\* deleteVibeTimeRule(id, householdName), the whole call
DeleteRule(id, householdName, fault, log) ==
    LET oerr == OwnershipError(id, householdName, rules, fault = "check", ErrNotOwnerDelete)
        err  == IF householdName = "" THEN ErrHousehold
                ELSE IF id = 0 THEN ErrInvalidId
                ELSE IF oerr # NoError THEN oerr
                ELSE IF fault = "write" THEN ErrRepository
                ELSE NoError
    IN  /\ rules' = IF err # NoError THEN rules ELSE DeleteRows(rules, id, householdName)
        /\ out' = IF log
                  THEN [op |-> "delete", error |-> err, id |-> IF err = NoError THEN id ELSE 0]
                  ELSE out
        /\ req' = IF log THEN <<id, householdName, fault>> ELSE req
        /\ UNCHANGED <<nextId, calls, iv, handler, sent, speaker_volumes, speakerVolumes, tokenRows, tokens, issued, flights, oauth_states, callbacks, exchanges, initialized, initializationPromise, stores, invoked, requests>>

Init ==
    /\ rules = {}
    /\ nextId = 1
    /\ calls = [p \in Callers |-> IdleCall]
    /\ out = NoOut
    /\ req = NoReq
    /\ iv = NoIv
    /\ handler = IdleHandler
    /\ sent = <<>>
    /\ speaker_volumes = NoVolumes
    /\ speakerVolumes = NoVolumes
    /\ tokenRows = [d \in Devices |-> ClearedTokens]
    /\ tokens = Null
    /\ issued = [d \in Devices |-> 0]
    /\ flights = [d \in Devices |-> IdleFlight]
    /\ oauth_states = NoStates
    /\ callbacks = [c \in Callbacks |-> IdleCallback]
    /\ exchanges = [s \in OAuthStates |-> 0]
    /\ initialized = FALSE
    /\ initializationPromise = Null
    /\ stores = [i \in 1..Len(Stores) |-> "null"]
    /\ invoked = [i \in 1..Len(Stores) |-> 0]
    /\ requests = [r \in Requests |-> IdleRequest]

\* a client of household H1 saves a rule
SaveRuleCall ==
    \E in \in PlainRuleInputs, fault \in Faults :
        SaveRule(RuleOf(in), "H1", fault, FALSE)

\* a client of household H1 deletes a rule
DeleteRuleCall ==
    \E id \in IdInputs, fault \in Faults :
        DeleteRule(id, "H1", fault, FALSE)

Next ==
    \/ SaveRuleCall
    \/ DeleteRuleCall

\* saves and deletes of one household, one call at a time
Spec == Init /\ [][Next]_vars

---------------------------------------------------------------------------
(* One observed saveVibeTimeRule call, with arbitrary arguments, on a      *)
(* repository that earlier calls have filled                               *)

\* the number of rows inserted before the observed call
MaxSetup == 1

\* an earlier call of household H1, not observed
SetupCall ==
    /\ out.op = "none"
    /\ nextId <= MaxSetup
    /\ \E in \in PlainRuleInputs :
        SaveRule(RuleOf(in), "H1", "none", FALSE)

\* the observed call: any rule, any household, any repository failure
ObservedSaveCall ==
    /\ out.op = "none"
    /\ \E in \in RuleInputs, householdName \in Households, fault \in Faults :
        SaveRule(RuleOf(in), householdName, fault, TRUE)

NextCall ==
    \/ SetupCall
    \/ ObservedSaveCall

SpecCall == Init /\ [][NextCall]_vars

---------------------------------------------------------------------------
(* Properties of the rule store under sequential calls *)

\* the rule covers hour h
Covers(r, h) == timeRangeContainsHour(r.start_hour, r.end_hour, h)

ShareHour(r1, r2) == \E h \in Hours : Covers(r1, h) /\ Covers(r2, h)

ShareDay(r1, r2) ==
    /\ ~IsNull(r1.days)
    /\ ~IsNull(r2.days)
    /\ Range(r1.days[1]) \cap Range(r2.days[1]) # {}

\* C1: when the saves and deletes of a household run one at a time, no two
\* distinct base rules of the household cover a common hour of the day.
\* Violated: the base rules 20->0 and 23->0 are both accepted and both cover 23.
C1_NoBaseRulesShareAnHour ==
    \A r1 \in rules, r2 \in rules :
        (/\ r1.id # r2.id
         /\ r1.household_name = r2.household_name
         /\ r1.rule_type = "base"
         /\ r2.rule_type = "base") => ~ShareHour(r1, r2)

\* C2: when the saves and deletes of a household run one at a time, no two
\* distinct override rules of the household that share a weekday cover a
\* common hour of the day.  Violated in the same way as C1, at hour 23.
C2_NoOverridesOfADayShareAnHour ==
    \A r1 \in rules, r2 \in rules :
        (/\ r1.id # r2.id
         /\ r1.household_name = r2.household_name
         /\ r1.rule_type = "override"
         /\ r2.rule_type = "override"
         /\ ShareDay(r1, r2)) => ~ShareHour(r1, r2)

---------------------------------------------------------------------------
(* Interval arithmetic on its own: one evaluation of either function on    *)
(* arbitrary hours                                                         *)

ContainsHourCall ==
    /\ iv = NoIv
    /\ \E startHour \in Hours, endHour \in Hours, hour \in Hours :
        /\ iv' = [fn     |-> "timeRangeContainsHour",
                  args   |-> <<startHour, endHour, hour>>,
                  result |-> timeRangeContainsHour(startHour, endHour, hour)]
        /\ UNCHANGED <<rules, nextId, calls, out, req, handler, sent, speaker_volumes, speakerVolumes, tokenRows, tokens, issued, flights, oauth_states, callbacks, exchanges, initialized, initializationPromise, stores, invoked, requests>>

RangesOverlapCall ==
    /\ iv = NoIv
    /\ \E start1 \in Hours, end1 \in Hours, start2 \in Hours, end2 \in Hours :
        /\ iv' = [fn     |-> "timeRangesOverlap",
                  args   |-> <<start1, end1, start2, end2>>,
                  result |-> timeRangesOverlap(start1, end1, start2, end2)]
        /\ UNCHANGED <<rules, nextId, calls, out, req, handler, sent, speaker_volumes, speakerVolumes, tokenRows, tokens, issued, flights, oauth_states, callbacks, exchanges, initialized, initializationPromise, stores, invoked, requests>>

NextInterval ==
    \/ ContainsHourCall
    \/ RangesOverlapCall

SpecInterval == Init /\ [][NextInterval]_vars

\* the hours of the half-open circular interval [start, end): a wrapping
\* interval (start > end) is [0, end) together with [start, 24)
HalfOpenHours(start, end) ==
    IF start > end
    THEN {h \in Hours : h < end} \cup {h \in Hours : h >= start}
    ELSE {h \in Hours : start <= h /\ h < end}

\* C4: timeRangesOverlap(start1, end1, start2, end2) is true exactly when some
\* hour of 0..23 lies in both half-open circular intervals.
\* Violated: timeRangesOverlap(20, 0, 23, 0) is false, but both contain 23.
C4_OverlapIffCommonHour ==
    (iv # NoIv /\ iv.fn = "timeRangesOverlap") =>
        (iv.result <=>
            HalfOpenHours(iv.args[1], iv.args[2]) \cap HalfOpenHours(iv.args[3], iv.args[4]) # {})

\* the hours met when walking forward from start, `steps` hours long
WalkFrom(start, steps) == {(start + k) % 24 : k \in 0..(steps - 1)}

\* the interval as the claim words it: wrapping when end <= start
HoursWrappingWhenEndLeqStart(start, end) ==
    IF end = 0 /\ start > 0 THEN start..23
    ELSE IF end <= start THEN WalkFrom(start, end + 24 - start)
    ELSE WalkFrom(start, end - start)

\* the interval as amended: wrapping when end < start, empty when end = start
HoursWrappingWhenEndLessThanStart(start, end) ==
    IF end = 0 /\ start > 0 THEN start..23
    ELSE IF end < start THEN WalkFrom(start, end + 24 - start)
    ELSE WalkFrom(start, end - start)

\* C5 as claimed: timeRangeContainsHour(start, end, hour) is true exactly when
\* hour lies in [start, end) walking forward from start and wrapping past 23
\* when end <= start (hours start..23 when end = 0 < start).
\* Violated: timeRangeContainsHour(5, 5, 5) is false.
C5_ContainsHourWrappingWhenEndLeqStart ==
    (iv # NoIv /\ iv.fn = "timeRangeContainsHour") =>
        (iv.result <=> iv.args[3] \in HoursWrappingWhenEndLeqStart(iv.args[1], iv.args[2]))

\* C5 as amended: timeRangeContainsHour(start, end, hour) is true exactly when
\* hour lies in [start, end) walking forward from start and wrapping past 23
\* when end < start; when end = start the interval is empty.
C5_ContainsHourHalfOpen ==
    (iv # NoIv /\ iv.fn = "timeRangeContainsHour") =>
        (iv.result <=> iv.args[3] \in HoursWrappingWhenEndLessThanStart(iv.args[1], iv.args[2]))

\* a range ending at midnight was evaluated at hour 23 and contains it
C5_Witness ==
    /\ iv # NoIv
    /\ iv.fn = "timeRangeContainsHour"
    /\ iv.args = <<19, 0, 23>>
    /\ iv.result

---------------------------------------------------------------------------
(* Properties of one observed saveVibeTimeRule call *)

\* the failure modes of the specification, by the message thrown
ErrorKind(message) ==
    CASE message = NoError -> "none"
      [] message = ErrHours -> "InvalidRange"
      [] message \in {ErrNoVibes, ErrNoValidVibes} -> "NoValidVibes"
      [] message = ErrRuleType -> "InvalidRuleType"
      [] message \in {ErrOverrideDays, ErrBaseDays} -> "InvalidDays"
      [] message \in {ErrBaseOverlap, ErrOverrideOverlap} -> "OverlapConflict"
      [] message \in {ErrBaseSelect, ErrOverrideSelect, ErrRepository} -> "RepositoryUnavailable"
      [] OTHER -> "Other"

SaveObserved == out.op = "save"

ReqRule == req[1]

ReqHousehold == req[2]

ReqFault == req[3]

HoursInRange(rule) == rule.start_hour \in Hours /\ rule.end_hour \in Hours

HasVibes(rule) == Len(rule.allowed_vibes) > 0

HasCanonicalVibe(rule) ==
    \E i \in 1..Len(rule.allowed_vibes) : rule.allowed_vibes[i] \in {"Down", "Down/Mid", "Mid"}

RuleTypeValid(rule) == rule.rule_type \in {"", "base", "override"}

\* I4 for the submitted rule: an override names at least one weekday, a base
\* rule carries no days
DaysConform(rule) ==
    IF rule.rule_type = "override"
    THEN /\ ~IsNull(rule.days)
         /\ \E i \in 1..Len(rule.days[1]) : rule.days[1][i] \in WeekDays
    ELSE IsNull(rule.days)

StructurallyValid(rule) ==
    HoursInRange(rule) /\ HasCanonicalVibe(rule) /\ RuleTypeValid(rule) /\ DaysConform(rule)

\* the first failing check in the order the claim gives
FirstFailureClaimed(rule) ==
    IF ~HoursInRange(rule) THEN "InvalidRange"
    ELSE IF ~HasCanonicalVibe(rule) THEN "NoValidVibes"
    ELSE IF ~RuleTypeValid(rule) THEN "InvalidRuleType"
    ELSE IF ~DaysConform(rule) THEN "InvalidDays"
    ELSE "none"

\* the first failing check in the order of the code: the canonical filter of
\* allowed_vibes comes after the rule_type check
FirstFailureAmended(rule) ==
    IF ~HoursInRange(rule) THEN "InvalidRange"
    ELSE IF ~HasVibes(rule) THEN "NoValidVibes"
    ELSE IF ~RuleTypeValid(rule) THEN "InvalidRuleType"
    ELSE IF ~HasCanonicalVibe(rule) THEN "NoValidVibes"
    ELSE IF ~DaysConform(rule) THEN "InvalidDays"
    ELSE "none"

StructuralKinds == {"InvalidRange", "NoValidVibes", "InvalidRuleType", "InvalidDays"}

\* C9 as claimed: the checks run in the order hour range, allowed_vibes
\* non-empty after filtering to the canonical set, rule_type, days, overlap,
\* and the error raised is that of the first check in this order that fails.
\* Violated: allowed_vibes ["Chill"] with rule_type "weekly" raises the
\* rule_type error.
C9_FirstFailureInClaimedOrder ==
    SaveObserved =>
        /\ ~StructurallyValid(ReqRule) => ErrorKind(out.error) = FirstFailureClaimed(ReqRule)
        /\ StructurallyValid(ReqRule) => ErrorKind(out.error) \notin StructuralKinds

\* C9 as amended: the checks run in the order hour range, allowed_vibes a
\* non-empty list, rule_type, allowed_vibes non-empty after filtering to the
\* canonical set, days, overlap, and the error raised is that of the first
\* check in this order that fails; an overlap conflict or a repository error
\* is raised only when all the earlier checks passed.
C9_FirstFailureInCodeOrder ==
    SaveObserved =>
        /\ ~StructurallyValid(ReqRule) => ErrorKind(out.error) = FirstFailureAmended(ReqRule)
        /\ StructurallyValid(ReqRule) => ErrorKind(out.error) \notin StructuralKinds

\* a rule with only non-canonical vibes and an invalid rule_type was rejected
\* for its rule_type
C9_Witness ==
    /\ SaveObserved
    /\ HoursInRange(ReqRule)
    /\ HasVibes(ReqRule)
    /\ ~HasCanonicalVibe(ReqRule)
    /\ ~RuleTypeValid(ReqRule)
    /\ ErrorKind(out.error) = "InvalidRuleType"

\* the rows the submitted rule must be compared to: the other rules of its
\* household and type, for an override those sharing a weekday
SiblingsOfRequest ==
    {r \in rules :
        /\ r.id \notin {ReqRule.id, out.id}
        /\ r.household_name = ReqHousehold
        /\ r.rule_type = RuleTypeOf(ReqRule)
        /\ RuleTypeOf(ReqRule) = "override" =>
              /\ ~IsNull(r.days)
              /\ \E i \in 1..Len(ReqRule.days[1]) : ReqRule.days[1][i] \in Range(r.days[1])}

RequestSharesHourWithSibling ==
    \E r \in SiblingsOfRequest : \E h \in Hours :
        /\ Covers(r, h)
        /\ timeRangeContainsHour(ReqRule.start_hour, ReqRule.end_hour, h)

\* the observed call is an insert, or an update of a rule of the caller's
\* household, and no repository call failed
RequestIsServable ==
    /\ ReqFault = "none"
    /\ ReqRule.id # 0 =>
          \E r \in rules : r.id = ReqRule.id /\ r.household_name = ReqHousehold

\* C8: a structurally valid rule is accepted when it shares no hour with any
\* sibling it must be compared to, and rejected with OverlapConflict when it
\* does.  Violated: with the base rule 20->0 stored, the base rule 23->0 is
\* accepted although both cover hour 23.
C8_AcceptedIffNoHourShared ==
    (SaveObserved /\ StructurallyValid(ReqRule) /\ RequestIsServable) =>
        IF RequestSharesHourWithSibling
        THEN ErrorKind(out.error) = "OverlapConflict"
        ELSE out.error = NoError

\* C10: a saveVibeTimeRule call that raises an error leaves the table as it
\* was: no row is inserted or updated and no id is consumed.
C10_FailedSaveWritesNothing ==
    [][(out'.op = "save" /\ out'.error # NoError) => (rules' = rules /\ nextId' = nextId)]_vars

\* a call whose read of the sibling rules failed has returned its error, on a
\* table that holds a rule
C10_Witness ==
    /\ SaveObserved
    /\ rules # {}
    /\ out.error \in {ErrBaseSelect, ErrOverrideSelect}

---------------------------------------------------------------------------
(* Rule loader and recommendation engine *)

\* the row as loadVibeTimeRules returns it; only called on rows it keeps
SanitizedRule(row) ==
    LET ruleType == IF row.rule_type \in {"base", "override"} THEN row.rule_type ELSE "base"
    IN  [id            |-> row.id,
         start_hour    |-> row.start_hour,
         end_hour      |-> row.end_hour,
         allowed_vibes |-> ValidVibesOf(row.allowed_vibes),
         days          |-> IF ruleType = "override"
                           THEN Arr(SanitizedDays(row.days[1]))
                           ELSE Null,
         rule_type     |-> ruleType]

\* KeptByLoader without the check of the hours
KeptByLoaderAnyHours(row) ==
    LET ruleType == IF row.rule_type \in {"base", "override"} THEN row.rule_type ELSE "base"
    IN  /\ Len(row.allowed_vibes) > 0
        /\ Len(ValidVibesOf(row.allowed_vibes)) > 0
        /\ IF ruleType = "override"
           THEN ~IsNull(row.days) /\ Len(SanitizedDays(row.days[1])) # 0
           ELSE IsNull(row.days)

\* whether loadVibeTimeRules keeps the row
KeptByLoader(row) ==
    LET ruleType == IF row.rule_type \in {"base", "override"} THEN row.rule_type ELSE "base"
    IN  /\ row.start_hour >= 0 /\ row.start_hour <= 23
        /\ row.end_hour >= 0 /\ row.end_hour <= 23
        /\ Len(row.allowed_vibes) > 0
        /\ Len(ValidVibesOf(row.allowed_vibes)) > 0
        /\ IF ruleType = "override"
           THEN ~IsNull(row.days) /\ Len(SanitizedDays(row.days[1])) # 0
           ELSE IsNull(row.days)

RECURSIVE OrderedByStartHour(_)
\* .order('start_hour', { ascending: true }); rows of equal start_hour by id
OrderedByStartHour(S) ==
    IF S = {} THEN <<>>
    ELSE LET first == CHOOSE x \in S : \A y \in S :
                          \/ x.start_hour < y.start_hour
                          \/ (x.start_hour = y.start_hour /\ x.id <= y.id)
         IN  <<first>> \o OrderedByStartHour(S \ {first})

\* loadVibeTimeRules(householdName) on the table `data`
loadVibeTimeRules(householdName, data) ==
    OrderedByStartHour(
        {SanitizedRule(row) :
            row \in {r \in data : r.household_name = householdName /\ KeptByLoader(r)}})

\* the override filter of getRecommendedPlaylists
MatchesOverride(rule, currentDay, currentHour) ==
    /\ ~IsNull(rule.days)
    /\ Len(rule.days[1]) = 1
    /\ rule.days[1][1] = currentDay
    /\ timeRangeContainsHour(rule.start_hour, rule.end_hour, currentHour)

\* ActiveRules falling back to all the rules when none matches
ActiveRulesOrAllRules(allRules, currentHour, currentDay) ==
    LET matching ==
            SelectSeq(allRules,
                LAMBDA rule :
                    /\ timeRangeContainsHour(rule.start_hour, rule.end_hour, currentHour)
                    /\ rule.rule_type = "override" => MatchesOverride(rule, currentDay, currentHour))
    IN  IF Len(matching) > 0 THEN matching ELSE allRules

\* getRecommendedPlaylists up to the set of allowed vibes, on the loaded rules
ActiveRules(allRules, currentHour, currentDay) ==
    LET baseRules == SelectSeq(allRules, LAMBDA r : r.rule_type = "base")
        overrideRules == SelectSeq(allRules, LAMBDA r : r.rule_type = "override")
        matchingBaseRules ==
            SelectSeq(baseRules,
                LAMBDA rule : timeRangeContainsHour(rule.start_hour, rule.end_hour, currentHour))
        matchingOverrideRules ==
            SelectSeq(overrideRules,
                LAMBDA rule : MatchesOverride(rule, currentDay, currentHour))
    IN  IF Len(matchingOverrideRules) > 0 THEN matchingOverrideRules ELSE matchingBaseRules

AllowedVibes(activeRules) ==
    UNION {Range(activeRules[i].allowed_vibes) : i \in 1..Len(activeRules)}

\* the rule matching and precedence of a recommendation request for the
\* rules of householdName at currentHour on currentDay
Recommend(householdName, currentHour, currentDay) ==
    \E activeRules \in {ActiveRules(loadVibeTimeRules(householdName, rules),
                                    currentHour, currentDay)} :
        /\ out' = [op            |-> "recommend",
                   error         |-> NoError,
                   id            |-> 0,
                   activeRuleIds |-> [i \in 1..Len(activeRules) |-> activeRules[i].id],
                   allowedVibes  |-> AllowedVibes(activeRules)]
        /\ req' = <<householdName, currentHour, currentDay>>
        /\ UNCHANGED <<rules, nextId, calls, iv, handler, sent, speaker_volumes, speakerVolumes, tokenRows, tokens, issued, flights, oauth_states, callbacks, exchanges, initialized, initializationPromise, stores, invoked, requests>>

\* an earlier save of household H1, not observed
EarlierSaveCall ==
    /\ out.op = "none"
    /\ SaveRuleCall

\* an earlier delete of household H1, not observed
EarlierDeleteCall ==
    /\ out.op = "none"
    /\ DeleteRuleCall

\* the observed recommendation request
RecommendCall ==
    /\ out.op = "none"
    /\ \E currentHour \in Hours, currentDay \in WeekDays :
        Recommend("H1", currentHour, currentDay)

NextRec ==
    \/ EarlierSaveCall
    \/ EarlierDeleteCall
    \/ RecommendCall

\* one recommendation request after any sequence of saves and deletes
SpecRec == Init /\ [][NextRec]_vars

RecObserved == out.op = "recommend"

ReqHour == req[2]

ReqDay == req[3]

\* the stored override rules of the household whose days contain the
\* requested day and whose hours contain the requested hour
OverridesInForce ==
    {r \in rules :
        /\ r.household_name = req[1]
        /\ r.rule_type = "override"
        /\ ReqDay \in Range(r.days[1])
        /\ Covers(r, ReqHour)}

\* the stored base rules of the household whose hours contain the requested hour
BaseRulesInForce ==
    {r \in rules :
        /\ r.household_name = req[1]
        /\ r.rule_type = "base"
        /\ Covers(r, ReqHour)}

IdsOf(S) == {r.id : r \in S}

VibesOf(S) == UNION {Range(r.allowed_vibes) : r \in S}

\* C6: when an override rule matches the requested day and hour, the active
\* rules are exactly the matching overrides and the allowed vibes the union of
\* their vibes; otherwise the active rules are exactly the matching base rules.
\* Violated: with a base rule and an override for days 1 and 2 over the same
\* hours, the base rule is the active one on day 1.
C6_OverridesReplaceBaseRules ==
    RecObserved =>
        IF OverridesInForce # {}
        THEN /\ Range(out.activeRuleIds) = IdsOf(OverridesInForce)
             /\ out.allowedVibes = VibesOf(OverridesInForce)
        ELSE Range(out.activeRuleIds) = IdsOf(BaseRulesInForce)

\* C7: every stored override rule is active on each of its days during its
\* hours.  Violated: an override saved with days [2, 1, 2] is stored with days
\* [1, 2] and is never active.
C7_OverrideActiveOnEachOfItsDays ==
    RecObserved =>
        \A r \in OverridesInForce : r.id \in Range(out.activeRuleIds)

---------------------------------------------------------------------------
(* Concurrent saveVibeTimeRule calls.  A call is suspended at each         *)
(* repository request (await); between two requests of one call the        *)
(* requests of the other calls may run.                                    *)

\* InsertError with the overlap validation repeated on the table as it is
\* when the row is written
InsertErrorRevalidating(rule, householdName, data, writeFails) ==
    IF writeFails THEN ErrRepository
    ELSE ValidationError(rule, householdName, data, FALSE)

\* the error of the insert request of a validated rule
InsertError(rule, householdName, data, writeFails) ==
    IF writeFails THEN ErrRepository ELSE NoError

\* the call starts: the structural checks, then the select of the sibling
\* rules and the overlap check on the rows it returned
StartSave(p) ==
    /\ calls[p].pc = "idle"
    /\ \E in \in ConcurrentRuleInputs, selectFails \in BOOLEAN :
        \E verr \in {ValidationError(RuleOf(in), "H1", rules, selectFails)} :
            calls' = [calls EXCEPT ![p] =
                        [pc            |-> IF verr # NoError THEN "done"
                                           ELSE IF in.id # 0 THEN "check" ELSE "insert",
                         rule          |-> RuleOf(in),
                         householdName |-> "H1",
                         error         |-> verr]]
    /\ UNCHANGED <<rules, nextId, out, req, iv, handler, sent, speaker_volumes, speakerVolumes, tokenRows, tokens, issued, flights, oauth_states, callbacks, exchanges, initialized, initializationPromise, stores, invoked, requests>>

\* an update: the select that checks that the rule exists and is the caller's
CheckOwnership(p) ==
    /\ calls[p].pc = "check"
    /\ \E checkFails \in BOOLEAN :
        \E oerr \in {OwnershipError(calls[p].rule.id, calls[p].householdName, rules,
                                    checkFails, ErrNotOwner)} :
            calls' = [calls EXCEPT ![p].pc = IF oerr # NoError THEN "done" ELSE "update",
                                   ![p].error = oerr]
    /\ UNCHANGED <<rules, nextId, out, req, iv, handler, sent, speaker_volumes, speakerVolumes, tokenRows, tokens, issued, flights, oauth_states, callbacks, exchanges, initialized, initializationPromise, stores, invoked, requests>>

\* an update: the update request; .single() fails when no row was updated
WriteUpdate(p) ==
    /\ calls[p].pc = "update"
    /\ \E writeFails \in BOOLEAN :
        LET rule == calls[p].rule
            hh   == calls[p].householdName
            hit  == \E r \in rules : r.id = rule.id /\ r.household_name = hh
        IN  /\ rules' = IF writeFails \/ ~hit THEN rules
                        ELSE UpdateRows(rules, rule.id, hh, RowOf(rule, hh))
            /\ calls' = [calls EXCEPT ![p].pc = "done",
                                      ![p].error = IF writeFails \/ ~hit
                                                   THEN ErrRepository ELSE NoError]
    /\ UNCHANGED <<nextId, out, req, iv, handler, sent, speaker_volumes, speakerVolumes, tokenRows, tokens, issued, flights, oauth_states, callbacks, exchanges, initialized, initializationPromise, stores, invoked, requests>>

\* an insert: the insert request
WriteInsert(p) ==
    /\ calls[p].pc = "insert"
    /\ nextId <= MaxId
    /\ \E writeFails \in BOOLEAN :
        \E err \in {InsertError(calls[p].rule, calls[p].householdName, rules, writeFails)} :
            /\ rules' = SavedRows(calls[p].rule, calls[p].householdName, rules, nextId, err)
            /\ nextId' = IF err = NoError THEN nextId + 1 ELSE nextId
            /\ calls' = [calls EXCEPT ![p].pc = "done", ![p].error = err]
    /\ UNCHANGED <<out, req, iv, handler, sent, speaker_volumes, speakerVolumes, tokenRows, tokens, issued, flights, oauth_states, callbacks, exchanges, initialized, initializationPromise, stores, invoked, requests>>

\* a call that ran to its end before the concurrent calls started
EarlierSetupCall ==
    /\ \A p \in Callers : calls[p].pc = "idle"
    /\ SetupCall

NextConc ==
    \/ EarlierSetupCall
    \/ \E p \in Callers : StartSave(p)
    \/ \E p \in Callers : CheckOwnership(p)
    \/ \E p \in Callers : WriteUpdate(p)
    \/ \E p \in Callers : WriteInsert(p)

\* NumCallers calls of household H1, interleaved at their repository requests
SpecConc == Init /\ [][NextConc]_vars

\* C3: validation and write are not atomic.  A call whose rule passed the
\* overlap validation inserts it whatever was written since: its insert fails
\* only when the repository fails, never with an overlap conflict; so two
\* concurrent calls whose rules overlap each other can both insert (C3_Witness).
C3_ValidatedInsertIsNotRevalidated ==
    [][\A p \in Callers :
          (calls[p].pc = "insert" /\ calls'[p].pc = "done") =>
              IF calls'[p].error = NoError
              THEN \E r \in rules' \ rules :
                      /\ r.start_hour = calls[p].rule.start_hour
                      /\ r.end_hour = calls[p].rule.end_hour
                      /\ r.rule_type = RuleTypeOf(calls[p].rule)
              ELSE calls'[p].error = ErrRepository]_vars

\* both concurrent calls have inserted, and the table holds two rules of the
\* same kind (two base rules, or two overrides sharing a day) whose ranges the
\* validation would have reported as overlapping
C3_Witness ==
    /\ \A p \in Callers : calls[p].pc = "done" /\ calls[p].error = NoError /\ calls[p].rule.id = 0
    /\ \E r1 \in rules, r2 \in rules :
        /\ r1.id # r2.id
        /\ r1.household_name = r2.household_name
        /\ r1.rule_type = r2.rule_type
        /\ r1.rule_type = "override" => ShareDay(r1, r2)
        /\ timeRangesOverlap(r1.start_hour, r1.end_hour, r2.start_hour, r2.end_hour)
        /\ ShareHour(r1, r2)

---------------------------------------------------------------------------
(* One observed update (a save that names an id) after any sequence of     *)
(* saves and deletes of household H1                                       *)

\* the rules a client sends to update a rule
UpdateRuleInputs == {in \in PlainRuleInputs : in.id # 0}

\* the observed update: a well-formed rule that names an id, any household,
\* any repository failure
ObservedUpdateCall ==
    /\ out.op = "none"
    /\ \E in \in UpdateRuleInputs, householdName \in Households, fault \in Faults :
        SaveRule(RuleOf(in), householdName, fault, TRUE)

NextUpdate ==
    \/ EarlierSaveCall
    \/ EarlierDeleteCall
    \/ ObservedUpdateCall

SpecUpdate == Init /\ [][NextUpdate]_vars

\* the stored rules an update of `rule` by householdName must be compared to:
\* the rules of the household and type other than the rule itself, for an
\* override those sharing a weekday
SiblingsOfUpdate(rule, householdName, data) ==
    {r \in data :
        /\ r.id # rule.id
        /\ r.household_name = householdName
        /\ r.rule_type = RuleTypeOf(rule)
        /\ RuleTypeOf(rule) = "override" =>
              Range(r.days[1]) \cap Range(rule.days[1]) # {}}

\* the update moves the rule onto an hour that one of its siblings covers
UpdateSharesHour(rule, householdName, data) ==
    \E r \in SiblingsOfUpdate(rule, householdName, data) : \E h \in Hours :
        /\ Covers(r, h)
        /\ timeRangeContainsHour(rule.start_hour, rule.end_hour, h)

\* the stored rule the update names, if it is the caller's
TargetOfUpdate(rule, householdName, data) ==
    {r \in data : r.id = rule.id /\ r.household_name = householdName}

\* the update returned: no rule was added and no id changed
UpdateKeepsIds ==
    (out.op = "none" /\ out'.op = "save") =>
        /\ Cardinality(rules') <= Cardinality(rules)
        /\ IdsOf(rules') = IdsOf(rules)
        /\ nextId' = nextId
        /\ out'.error = NoError => out'.id = req'[1].id

\* an update that names an id that is not stored fails and writes nothing
UpdateOfMissingRuleFails ==
    (out.op = "none" /\ out'.op = "save" /\ req'[1].id \notin IdsOf(rules)) =>
        out'.error # NoError /\ rules' = rules

\* re-saving a stored rule with the fields it has succeeds
UnchangedResaveSucceeds ==
    (/\ out.op = "none" /\ out'.op = "save" /\ req'[3] = "none"
     /\ WithId(RowOf(req'[1], req'[2]), req'[1].id) \in rules) =>
        out'.error = NoError /\ rules' = rules

\* an update onto an hour that a sibling covers is rejected
UpdateOntoSiblingRejected ==
    (/\ out.op = "none" /\ out'.op = "save"
     /\ TargetOfUpdate(req'[1], req'[2], rules) # {}
     /\ UpdateSharesHour(req'[1], req'[2], rules)) =>
        out'.error # NoError /\ rules' = rules

\* C11: an update keeps the id of the rule and never adds a rule (an update
\* naming an id that is not stored fails without inserting), re-saving a
\* stored rule with unchanged fields succeeds, and an update that moves the
\* rule onto a range sharing an hour with another sibling is rejected.
\* Violated: with the base rules 20->0 and 9->17 stored, the update of the
\* second to 23->0 is accepted although both then cover hour 23.
C11_UpdateInPlace ==
    [][/\ UpdateKeepsIds
       /\ UpdateOfMissingRuleFails
       /\ UnchangedResaveSucceeds
       /\ UpdateOntoSiblingRejected]_vars

\* the parts of C11 that do not depend on the overlap test
C11_PartsThatHold ==
    [][/\ UpdateKeepsIds
       /\ UpdateOfMissingRuleFails
       /\ UnchangedResaveSucceeds]_vars

---------------------------------------------------------------------------
(* Two households: one observed save or delete of either household on a    *)
(* table that earlier calls of both households have filled                 *)

\* the rules the clients of the two households submit
ScopedRuleInputs ==
    {in \in PlainRuleInputs :
        in.range \in {<<9, 17>>, <<16, 20>>} /\ in.allowed_vibes = <<"Mid">>}

\* an earlier save of either household, not observed
EarlierScopedSaveCall ==
    /\ out.op = "none"
    /\ \E in \in ScopedRuleInputs, householdName \in Households :
        SaveRule(RuleOf(in), householdName, "none", FALSE)

\* the observed save: any id, either household, any repository failure
ObservedScopedSaveCall ==
    /\ out.op = "none"
    /\ \E in \in ScopedRuleInputs, householdName \in Households, fault \in Faults :
        SaveRule(RuleOf(in), householdName, fault, TRUE)

\* the observed delete: any id, either household, any repository failure
ObservedScopedDeleteCall ==
    /\ out.op = "none"
    /\ \E id \in IdInputs, householdName \in Households, fault \in Faults :
        DeleteRule(id, householdName, fault, TRUE)

NextScoped ==
    \/ EarlierScopedSaveCall
    \/ ObservedScopedSaveCall
    \/ ObservedScopedDeleteCall

SpecScoped == Init /\ [][NextScoped]_vars

\* the rules of the households other than householdName
RulesOfOthers(householdName, data) == {r \in data : r.household_name # householdName}

\* C12: a save or delete made in the scope of a household leaves every rule of
\* the other households unchanged, fails when it names the id of a rule of
\* another household, and an overlap rejection is the one the call would get
\* on the rules of its own household alone.
C12_ScopedToOneHousehold ==
    [][(out.op = "none" /\ out'.op \in {"save", "delete"}) =>
          LET householdName == req'[2]
              id == IF out'.op = "save" THEN req'[1].id ELSE req'[1]
          IN  /\ RulesOfOthers(householdName, rules') = RulesOfOthers(householdName, rules)
              /\ (\E r \in RulesOfOthers(householdName, rules) : r.id = id) =>
                    (out'.error # NoError /\ rules' = rules)
              /\ (out'.op = "save" /\ out'.error \in {ErrBaseOverlap, ErrOverrideOverlap}) =>
                    ValidationError(req'[1], householdName,
                                    rules \ RulesOfOthers(householdName, rules), FALSE)
                        = out'.error]_vars

\* household H2 has inserted a base rule over hours that a base rule of
\* household H1 covers
C12_Witness ==
    /\ out.op = "save"
    /\ out.error = NoError
    /\ req[2] = "H2"
    /\ req[1].id = 0
    /\ \E r1 \in rules, r2 \in rules :
        /\ r1.household_name = "H1"
        /\ r2.household_name = "H2"
        /\ r2.id = out.id
        /\ r1.rule_type = "base"
        /\ r2.rule_type = "base"
        /\ timeRangesOverlap(r2.start_hour, r2.end_hour, r1.start_hour, r1.end_hour)

\* household H2 named the id of a rule of household H1 and was refused
C12_WitnessForeignId ==
    /\ out.op \in {"save", "delete"}
    /\ out.error \in {ErrNotOwner, ErrNotOwnerDelete}
    /\ req[2] = "H2"
    /\ \E r \in rules : r.household_name = "H1" /\ r.id = (IF out.op = "save" THEN req[1].id ELSE req[1])

---------------------------------------------------------------------------
(* The invariants I1-I4 of a single rule *)

\* the list is strictly ascending, hence free of duplicates
Ascending(list) == \A i \in 1..(Len(list) - 1) : list[i] < list[i + 1]

SatisfiesI1(r) == r.start_hour \in Hours /\ r.end_hour \in Hours

SatisfiesI2(r) ==
    /\ Len(r.allowed_vibes) > 0
    /\ Range(r.allowed_vibes) \subseteq {"Down", "Down/Mid", "Mid"}

SatisfiesI3(r) == r.rule_type \in {"base", "override"}

SatisfiesI4(r) ==
    /\ r.rule_type = "base" => IsNull(r.days)
    /\ r.rule_type = "override" =>
          /\ ~IsNull(r.days)
          /\ Len(r.days[1]) > 0
          /\ Range(r.days[1]) \subseteq WeekDays
          /\ Ascending(r.days[1])

SatisfiesI1toI4(r) ==
    SatisfiesI1(r) /\ SatisfiesI2(r) /\ SatisfiesI3(r) /\ SatisfiesI4(r)

\* C13: every stored rule satisfies I1-I4: hours in 0..23, allowed_vibes
\* non-empty and canonical, rule_type base or override, days null for a base
\* rule and a non-empty, duplicate-free, ascending list of weekdays for an
\* override, whatever rule the saveVibeTimeRule calls were given.
C13_StoredRulesSatisfyI1toI4 ==
    \A r \in rules : SatisfiesI1toI4(r)

\* an override submitted with days [2, 1, 2] and vibes ["Down", "Chill"] was
\* accepted and is stored with days [1, 2] and vibes ["Down"]
C13_Witness ==
    /\ SaveObserved
    /\ out.error = NoError
    /\ ReqRule.days = Arr(<<2, 1, 2>>)
    /\ ReqRule.allowed_vibes = <<"Down", "Chill">>
    /\ \E r \in rules :
        /\ r.id = out.id
        /\ r.days = Arr(<<1, 2>>)
        /\ r.allowed_vibes = <<"Down">>

---------------------------------------------------------------------------
(* The loader on rows that were not written by saveVibeTimeRule: rows of   *)
(* any shape are put into the table, then one loadVibeTimeRules call is    *)
(* observed                                                                *)

ErrLoadHousehold == "Household name is required to load vibe time rules"

\* the rows found in the table: hours out of range, vibes that are not
\* canonical, days of any shape, a missing ("") or unknown rule_type
RawRowInputs ==
    [range : {<<9, 17>>, <<9, 24>>, <<-1, 5>>},
     allowed_vibes : VibesInputs,
     days : {Null, Arr(<<>>), Arr(<<9>>), Arr(<<2, 1, 2>>)},
     rule_type : RuleTypeInputs]

\* a row is written to the table by other means than saveVibeTimeRule
RawWriteCall ==
    /\ out.op = "none"
    /\ nextId <= MaxId
    /\ \E in \in RawRowInputs, householdName \in Households :
        rules' = rules \cup
            {[id             |-> nextId,
              start_hour     |-> in.range[1],
              end_hour       |-> in.range[2],
              allowed_vibes  |-> in.allowed_vibes,
              days           |-> in.days,
              rule_type      |-> in.rule_type,
              household_name |-> householdName]}
    /\ nextId' = nextId + 1
    /\ UNCHANGED <<calls, out, req, iv, handler, sent, speaker_volumes, speakerVolumes, tokenRows, tokens, issued, flights, oauth_states, callbacks, exchanges, initialized, initializationPromise, stores, invoked, requests>>

\* the error loadVibeTimeRules throws, NoError if it returns a list
LoadError(householdName) ==
    IF householdName = "" THEN ErrLoadHousehold ELSE NoError

\* loadVibeTimeRules(householdName), the whole call; "" is a missing household
LoadRules(householdName, fault) ==
    /\ out' = [op     |-> "load",
               error  |-> LoadError(householdName),
               id     |-> 0,
               result |-> IF LoadError(householdName) # NoError \/ fault = "select"
                          THEN <<>>
                          ELSE loadVibeTimeRules(householdName, rules)]
    /\ req' = <<householdName, fault>>
    /\ UNCHANGED <<rules, nextId, calls, iv, handler, sent, speaker_volumes, speakerVolumes, tokenRows, tokens, issued, flights, oauth_states, callbacks, exchanges, initialized, initializationPromise, stores, invoked, requests>>

\* the observed call
LoadRulesCall ==
    /\ out.op = "none"
    /\ \E householdName \in Households \cup {""}, fault \in {"none", "select"} :
        LoadRules(householdName, fault)

NextLoad ==
    \/ RawWriteCall
    \/ LoadRulesCall

SpecLoad == Init /\ [][NextLoad]_vars

LoadObserved == out.op = "load"

\* the row could be coerced to a rule that satisfies I1-I4: hours in range, a
\* canonical vibe, and for an override a valid day, else no days value at all
RowConforms(row) ==
    /\ row.start_hour \in Hours /\ row.end_hour \in Hours
    /\ Range(row.allowed_vibes) \cap {"Down", "Down/Mid", "Mid"} # {}
    /\ IF row.rule_type = "override"
       THEN ~IsNull(row.days) /\ Range(row.days[1]) \cap WeekDays # {}
       ELSE IsNull(row.days)

C15_LoadNeverThrows ==
    LoadObserved =>
        /\ out.error = NoError
        /\ req[2] = "select" => out.result = <<>>

\* the part of C15 that holds: a failed read gives the empty list, on which no
\* rule is active at any hour and day
C15_FailedReadGivesEmptyList ==
    (LoadObserved /\ req[1] # "" /\ req[2] = "select") =>
        /\ out.error = NoError
        /\ out.result = <<>>
        /\ \A h \in Hours, d \in WeekDays : ActiveRules(out.result, h, d) = <<>>

---------------------------------------------------------------------------
(* Recommendation engine: the whole of getRecommendedPlaylists, with the   *)
(* favorites of the household and the deterministic choice of the primary  *)
(* recommendation.  Strings are sequences of character codes.              *)

RECURSIVE DecimalCodes(_)
\* String(n) for n >= 0: the character codes of its decimal digits
DecimalCodes(n) ==
    IF n < 10 THEN <<48 + n>>
    ELSE DecimalCodes(n \div 10) \o <<48 + (n % 10)>>

\* String(n).padStart(2, '0')
PadStart2(n) == IF n < 10 THEN <<48>> \o DecimalCodes(n) ELSE DecimalCodes(n)

\* `${getFullYear()}-${month padded}-${date padded}` of the date <<y, m, d>>
DateString(date) ==
    DecimalCodes(date[1]) \o <<45>> \o PadStart2(date[2]) \o <<45>> \o PadStart2(date[3])

RECURSIVE CodesBefore(_, _, _)
\* a < b as JavaScript compares strings, from position i on
CodesBefore(a, b, i) ==
    IF i > Len(a) THEN i <= Len(b)
    ELSE IF i > Len(b) THEN FALSE
    ELSE IF a[i] # b[i] THEN a[i] < b[i]
    ELSE CodesBefore(a, b, i + 1)

RECURSIVE SortedAsStrings(_)
\* Array.prototype.sort() without a comparator: the ids of the list ordered
\* as strings
SortedAsStrings(ids) ==
    IF Len(ids) = 0 THEN <<>>
    ELSE LET k == CHOOSE i \in 1..Len(ids) : \A j \in 1..Len(ids) :
                      ~CodesBefore(DecimalCodes(ids[j]), DecimalCodes(ids[i]), 1)
         IN  <<ids[k]>> \o SortedAsStrings(SubSeq(ids, 1, k - 1) \o SubSeq(ids, k + 1, Len(ids)))

RECURSIVE JoinWithComma(_)
\* Array.prototype.join(',')
JoinWithComma(ids) ==
    IF Len(ids) = 0 THEN <<>>
    ELSE IF Len(ids) = 1 THEN DecimalCodes(ids[1])
    ELSE DecimalCodes(ids[1]) \o <<44>> \o JoinWithComma(Tail(ids))

\* the ids of the rules in the order of the list
IdsInListOrder(activeRules) == [i \in 1..Len(activeRules) |-> activeRules[i].id]

\* ruleIds with the sort left out
ruleIdsInListOrder(activeRules) == JoinWithComma(IdsInListOrder(activeRules))

\* activeRules.map(r => r.id).sort().join(',')
ruleIds(activeRules) == JoinWithComma(SortedAsStrings(IdsInListOrder(activeRules)))

\* `${ruleIds}-${dateString}`
seedString(activeRules, date) == ruleIds(activeRules) \o <<45>> \o DateString(date)

RECURSIVE HashFrom(_, _, _)
\* the loop seedValue = ((seedValue << 5) - seedValue) + char, wrapped to 32
\* bits; a 32-bit value is the pair <<high 16 bits, low 16 bits>>
HashFrom(codes, i, seed) ==
    IF i > Len(codes) THEN seed
    ELSE LET low == seed[2] * 31 + codes[i]
         IN  HashFrom(codes, i + 1,
                      <<(seed[1] * 31 + (low \div 65536)) % 65536, low % 65536>>)

\* seedValue % n as it would be without Math.abs: the sign of seedValue is kept
AbsoluteModuloKeepingSign(seed, n) ==
    IF seed[1] >= 32768
    THEN 0 - ((((65535 - seed[1]) % n) * (65536 % n) + (65536 - seed[2])) % n)
    ELSE ((seed[1] % n) * (65536 % n) + seed[2]) % n

\* Math.abs(seedValue) % n for the signed 32-bit value seed, n > 0
AbsoluteModulo(seed, n) ==
    IF seed[1] >= 32768
    THEN (((65535 - seed[1]) % n) * (65536 % n) + (65536 - seed[2])) % n
    ELSE ((seed[1] % n) * (65536 % n) + seed[2]) % n

\* primaryIndex, counted from 0
primaryIndex(activeRules, date, n) ==
    AbsoluteModulo(HashFrom(seedString(activeRules, date), 1, <<0, 0>>), n)

\* the favorites of the household: the vibe is the tag of the vibe store ("" if
\* the favorite has none), hidden tells whether it is a hidden favorite
Favorite(id, vibe, hidden) == [id |-> id, vibe |-> vibe, hidden |-> hidden]

\* the response of the favorites request has failed
FavoritesUnavailable == <<"unavailable">>

FavoritesInputs ==
    {<<>>,
     <<Favorite("f1", "Mid", FALSE), Favorite("f2", "Down", FALSE), Favorite("f3", "Mid", FALSE)>>,
     <<Favorite("f1", "Mid", FALSE), Favorite("f4", "", FALSE), Favorite("f5", "Mid", TRUE),
       Favorite("f3", "Mid", FALSE)>>,
     FavoritesUnavailable}

DateInputs == {<<2026, 1, 9>>, <<2026, 11, 30>>}

ErrFavorites == "favorites request failed"

\* the rows of the household in an order the repository may return them in:
\* ascending by start_hour, rows of equal start_hour in any order
LoadOrders(householdName, data) ==
    LET kept == {SanitizedRule(row) :
                    row \in {r \in data : r.household_name = householdName /\ KeptByLoader(r)}}
        n    == Cardinality(kept)
    IN  {list \in [1..n -> kept] :
            /\ \A i \in 1..n, j \in 1..n : i # j => list[i] # list[j]
            /\ \A i \in 1..n, j \in 1..n : i < j => list[i].start_hour <= list[j].start_hour}

\* the value getRecommendedPlaylists returns, or the error it throws, on the
\* loaded rules allRules
RecommendationOf(allRules, currentHour, currentDay, date, favorites) ==
    LET activeRules == ActiveRules(allRules, currentHour, currentDay)
        allowedVibes == AllowedVibes(activeRules)
        visible == IF favorites = FavoritesUnavailable THEN <<>>
                   ELSE SelectSeq(favorites, LAMBDA favorite : ~favorite.hidden)
        matchingPlaylists ==
            SelectSeq(visible, LAMBDA favorite : favorite.vibe # "" /\ favorite.vibe \in allowedVibes)
        n == Len(matchingPlaylists)
        index == IF n = 0 THEN 0 ELSE primaryIndex(activeRules, date, n)
        debug == [activeRuleIds |-> IdsInListOrder(activeRules), allowedVibes |-> allowedVibes]
    IN  IF allowedVibes = {}
        THEN [error |-> NoError, primary |-> Null, alternatives |-> <<>>, currentRule |-> Null,
              favoritesRequested |-> FALSE, matchingPlaylists |-> <<>>] @@ debug
        ELSE IF favorites = FavoritesUnavailable
        THEN [error |-> ErrFavorites, primary |-> Null, alternatives |-> <<>>, currentRule |-> Null,
              favoritesRequested |-> TRUE, matchingPlaylists |-> <<>>] @@ debug
        ELSE IF n = 0
        THEN [error |-> NoError, primary |-> Null, alternatives |-> <<>>,
              currentRule |-> Arr(activeRules[1]),
              favoritesRequested |-> TRUE, matchingPlaylists |-> <<>>] @@ debug
        ELSE [error |-> NoError,
              primary |-> Arr(matchingPlaylists[index + 1]),
              alternatives |-> SubSeq(matchingPlaylists, 1, index)
                                  \o SubSeq(matchingPlaylists, index + 2, n),
              currentRule |-> Arr(activeRules[1]),
              favoritesRequested |-> TRUE,
              matchingPlaylists |-> matchingPlaylists] @@ debug

\* getRecommendedPlaylists, the whole call; the outcome of the call before it
\* is kept in out.previous
GetRecommendedPlaylists(householdName, currentHour, currentDay, date, favorites) ==
    \E allRules \in LoadOrders(householdName, rules) :
        /\ out' = [op |-> "recommendation", id |-> 0,
                   request |-> <<householdName, currentHour, currentDay, date, favorites>>,
                   previous |-> out]
                  @@ RecommendationOf(allRules, currentHour, currentDay, date, favorites)
        /\ req' = <<householdName, currentHour, currentDay, date, favorites>>
        /\ UNCHANGED <<rules, nextId, calls, iv, handler, sent, speaker_volumes, speakerVolumes, tokenRows, tokens, issued, flights, oauth_states, callbacks, exchanges, initialized, initializationPromise, stores, invoked, requests>>

\* the hours of the observed requests
RequestHours == {9, 16, 23}

\* the weekdays of the observed requests
RequestDays == {1, 3}

\* a recommendation request; at most two are observed
RecommendationCall ==
    /\ \/ out.op = "none"
       \/ out.op = "recommendation" /\ out.previous.op = "none"
    /\ \E currentHour \in RequestHours, currentDay \in RequestDays,
          date \in DateInputs, favorites \in FavoritesInputs :
        GetRecommendedPlaylists("H1", currentHour, currentDay, date, favorites)

NextRecommendation ==
    \/ EarlierSaveCall
    \/ EarlierDeleteCall
    \/ RecommendationCall

\* two recommendation requests after any sequence of saves and deletes
SpecRecommendation == Init /\ [][NextRecommendation]_vars

RecommendationObserved == out.op = "recommendation"

SameSelectionInputs ==
    /\ RecommendationObserved
    /\ out.previous.op = "recommendation"
    /\ out.error = NoError /\ out.previous.error = NoError
    /\ Range(out.activeRuleIds) = Range(out.previous.activeRuleIds)
    /\ out.request[4] = out.previous.request[4]
    /\ out.matchingPlaylists = out.previous.matchingPlaylists

\* C17: two recommendation requests with the same set of active rule ids, the
\* same date and the same filtered favorites return the same primary and the
\* same alternatives, whatever the order of the rule list, the hour and the
\* day of the requests and the unfiltered favorites.
C17_SelectionIsDeterministic ==
    SameSelectionInputs =>
        /\ out.primary = out.previous.primary
        /\ out.alternatives = out.previous.alternatives

\* two requests saw the same two active rules in different orders and chose
\* among two favorites
C17_Witness ==
    /\ SameSelectionInputs
    /\ Len(out.activeRuleIds) = 2
    /\ out.activeRuleIds # out.previous.activeRuleIds
    /\ Len(out.matchingPlaylists) = 2
    /\ ~IsNull(out.primary)

\* two requests at different hours of the window of the same rule, with
\* different unfiltered favorites, chose among the same two favorites
C17_WitnessHours ==
    /\ SameSelectionInputs
    /\ out.request[2] # out.previous.request[2]
    /\ out.request[5] # out.previous.request[5]
    /\ Len(out.matchingPlaylists) = 2
    /\ ~IsNull(out.primary)

---------------------------------------------------------------------------
(* The base schedule that partitions the day: 0-7 Down, 7-19 Mid,          *)
(* 19-0 Down/Mid, inserted one rule after another in any order, then one   *)
(* observed recommendation request                                         *)

ScheduleRuleInputs ==
    {[id |-> 0, range |-> <<0, 7>>, allowed_vibes |-> <<"Down">>,
      days |-> Null, rule_type |-> "base"],
     [id |-> 0, range |-> <<7, 19>>, allowed_vibes |-> <<"Mid">>,
      days |-> Null, rule_type |-> "base"],
     [id |-> 0, range |-> <<19, 0>>, allowed_vibes |-> <<"Down/Mid">>,
      days |-> Null, rule_type |-> "base"]}

\* the number of rules of the schedule
NumScheduleRules == Cardinality(ScheduleRuleInputs)

\* a rule of the schedule is submitted
ScheduleSaveCall ==
    /\ out.op \in {"none", "save"}
    /\ \E in \in ScheduleRuleInputs :
        SaveRuleUpTo(RuleOf(in), "H1", "none", TRUE, NumScheduleRules)

\* the observed recommendation request
ScheduleRecommendCall ==
    /\ out.op \in {"none", "save"}
    /\ \E currentHour \in Hours, currentDay \in WeekDays :
        Recommend("H1", currentHour, currentDay)

NextSchedule ==
    \/ ScheduleSaveCall
    \/ ScheduleRecommendCall

SpecSchedule == Init /\ [][NextSchedule]_vars

\* the range of the rule of the schedule that is to match hour h
ScheduleRangeAt(h) ==
    IF h <= 6 THEN <<0, 7>> ELSE IF h <= 18 THEN <<7, 19>> ELSE <<19, 0>>

\* C18: a rule of the schedule {0-7 Down, 7-19 Mid, 19-0 Down/Mid} that is not
\* stored yet is accepted whatever rules of the schedule are stored, so the
\* three are accepted in any order; and with the three stored and no
\* override, exactly one base rule matches each hour: 0-7 for hours 0..6,
\* 7-19 for hours 7..18, 19-0 for hours 19..23.
C18_ScheduleAcceptedAndPartitionsTheDay ==
    [][/\ (out'.op = "save" /\ ~(\E r \in rules : r.start_hour = req'[1].start_hour)) =>
             (out'.error = NoError /\ Cardinality(rules') = Cardinality(rules) + 1)
       /\ (out'.op = "recommend" /\ Cardinality(rules) = NumScheduleRules) =>
             /\ Len(out'.activeRuleIds) = 1
             /\ \E r \in rules :
                   /\ r.id = out'.activeRuleIds[1]
                   /\ <<r.start_hour, r.end_hour>> = ScheduleRangeAt(req'[2])
                   /\ out'.allowedVibes = Range(r.allowed_vibes)]_vars

\* the three rules are stored, 19-0 inserted first and 0-7 last, and the
\* request at hour 23 has the rule 19-0 as its only active rule
C18_Witness ==
    /\ out.op = "recommend"
    /\ Cardinality(rules) = NumScheduleRules
    /\ \E r \in rules : r.id = 1 /\ r.start_hour = 19 /\ r.end_hour = 0
    /\ \E r \in rules : r.id = 3 /\ r.start_hour = 0 /\ r.end_hour = 7
    /\ req[2] = 23
    /\ out.activeRuleIds = <<1>>
    /\ out.allowedVibes = {"Down/Mid"}

---------------------------------------------------------------------------
(* Playback requests of server.js: POST /api/groups/:groupId/favorites/play *)
(* and POST /api/groups/:groupId/spotify-playlist.  One request is handled; *)
(* every request it sends to the speaker control API is appended to `sent`  *)
(* with its outcome, which the environment chooses.                         *)

\* the number of times autogroupGroupMembers finds the players not grouped yet
\* before its deadline passes
MaxPolls == 2

\* clearGroupQueue: chunkSize
chunkSize == 50

Routes == {"favorites/play", "spotify-playlist"}

\* the players of the household, as its snapshot lists them
PlayersInputs == {<<>>, <<"RINCON_A", "RINCON_B">>}

\* the default volumes of the settings store, Null for a player without one
StoredVolumesInputs ==
    {[RINCON_A |-> Null, RINCON_B |-> Null],
     [RINCON_A |-> Arr(10), RINCON_B |-> Null],
     [RINCON_A |-> Arr(10), RINCON_B |-> Arr(25)]}

\* the pages of the queue of the group: no item, two items, two pages of one
\* item, one page of 51 items
QueueInputs ==
    {<<>>, <<<<1, 2>>>>, <<<<1>>, <<2>>>>, <<[i \in 1..(chunkSize + 1) |-> i]>>}

\* a request to the speaker control API and whether it succeeded
Call(method, call, arg, status) ==
    [method |-> method, call |-> call, arg |-> arg, status |-> status]

\* the handler gives up: handleProxyError
Failed(h) == [h EXCEPT !.pc = "done", !.response = "error"]

\* the request arrives; "" is a missing householdId in the body
ReceiveRequest ==
    /\ handler.pc = "idle"
    /\ \E route \in Routes, hint \in {"", "HID"}, flags \in [1..3 -> BOOLEAN],
          hasDeviceId \in BOOLEAN, hasTarget \in BOOLEAN,
          players \in PlayersInputs, volumes \in StoredVolumesInputs, queue \in QueueInputs :
        /\ route = "spotify-playlist" => queue = <<>>
        /\ ~(hasDeviceId /\ hasTarget) =>
              (players = <<>> /\ queue = <<>> /\ volumes.RINCON_A = Null)
        /\ handler' =
              [pc          |-> IF hasDeviceId /\ hasTarget THEN "households" ELSE "done",
               response    |-> IF hasDeviceId /\ hasTarget THEN "" ELSE "400",
               route       |-> route,
               hint        |-> hint,
               shuffle     |-> flags[1],
               repeat      |-> flags[2],
               crossfade   |-> flags[3],
               players     |-> players,
               volumes     |-> volumes,
               queue       |-> queue,
               householdId |-> "",
               polls       |-> 0,
               applied     |-> FALSE,
               supported   |-> FALSE,
               pagesRead   |-> 0,
               collected   |-> <<>>,
               removed     |-> 0,
               cleared     |-> FALSE]
    /\ UNCHANGED <<rules, nextId, calls, out, req, iv, sent, speaker_volumes, speakerVolumes, tokenRows, tokens, issued, flights, oauth_states, callbacks, exchanges, initialized, initializationPromise, stores, invoked, requests>>

\* findGroupContext: listHouseholds; a failure, or a list with no household,
\* ends autogroupGroupMembers without a household
ListHouseholds ==
    /\ handler.pc = "households"
    /\ \E outcome \in {"listed", "none", "fail"} :
        /\ sent' = Append(sent, Call("GET", "households", <<>>,
                                     IF outcome = "fail" THEN "fail" ELSE "ok"))
        /\ handler' = [handler EXCEPT !.pc = IF outcome = "listed" THEN "snapshot" ELSE "volumes"]
    /\ UNCHANGED <<rules, nextId, calls, out, req, iv, speaker_volumes, speakerVolumes, tokenRows, tokens, issued, flights, oauth_states, callbacks, exchanges, initialized, initializationPromise, stores, invoked, requests>>

\* findGroupContext: the snapshot of the household; the group is found in it,
\* or it is not, or the request fails
GetSnapshot ==
    /\ handler.pc = "snapshot"
    /\ \E outcome \in {"found", "notfound", "fail"} :
        /\ sent' = Append(sent, Call("GET", "groups", <<"HID">>,
                                     IF outcome = "fail" THEN "fail" ELSE "ok"))
        /\ handler' =
              IF outcome # "found" THEN [handler EXCEPT !.pc = "volumes"]
              ELSE IF Len(handler.players) = 0
                   THEN [handler EXCEPT !.pc = "volumes", !.householdId = "HID"]
                   ELSE [handler EXCEPT !.pc = "setGroupMembers"]
    /\ UNCHANGED <<rules, nextId, calls, out, req, iv, speaker_volumes, speakerVolumes, tokenRows, tokens, issued, flights, oauth_states, callbacks, exchanges, initialized, initializationPromise, stores, invoked, requests>>

\* autogroupGroupMembers: setGroupMembers with the ids of the players of the
\* snapshot; a failure ends autogroupGroupMembers without a household
SetGroupMembers ==
    /\ handler.pc = "setGroupMembers"
    /\ \E status \in {"ok", "fail"} :
        /\ sent' = Append(sent, Call("POST", "setGroupMembers", handler.players, status))
        /\ handler' = [handler EXCEPT !.pc = IF status = "ok" THEN "verify" ELSE "volumes"]
    /\ UNCHANGED <<rules, nextId, calls, out, req, iv, speaker_volumes, speakerVolumes, tokenRows, tokens, issued, flights, oauth_states, callbacks, exchanges, initialized, initializationPromise, stores, invoked, requests>>

\* autogroupGroupMembers: the snapshot is read again until every player is in
\* the group, the read fails or the deadline has passed
VerifyGroup ==
    /\ handler.pc = "verify"
    /\ \E outcome \in {"grouped", "notyet", "fail"} :
        /\ sent' = Append(sent, Call("GET", "groups", <<"HID">>,
                                     IF outcome = "fail" THEN "fail" ELSE "ok"))
        /\ handler' =
              IF outcome = "notyet" /\ handler.polls + 1 < MaxPolls
              THEN [handler EXCEPT !.polls = handler.polls + 1]
              ELSE [handler EXCEPT !.pc = "volumes", !.householdId = "HID",
                                   !.polls = IF outcome = "notyet" THEN MaxPolls ELSE handler.polls]
    /\ UNCHANGED <<rules, nextId, calls, out, req, iv, speaker_volumes, speakerVolumes, tokenRows, tokens, issued, flights, oauth_states, callbacks, exchanges, initialized, initializationPromise, stores, invoked, requests>>

\* favorites/play and spotify-playlist: householdForVolumes, "" when neither
\* autogroupGroupMembers nor the request names a household
householdForVolumes(h) == IF h.householdId # "" THEN h.householdId ELSE h.hint

\* applyDefaultVolumes as it would be if only the first player with a stored
\* volume were set
DefaultVolumeCallsFirstPlayerOnly(players, volumes) ==
    LET withVolume == SelectSeq(players, LAMBDA p : ~IsNull(volumes[p]))
    IN  [i \in 1..(IF Len(withVolume) > 0 THEN 1 ELSE 0) |->
            <<withVolume[i], volumes[withVolume[i]][1]>>]

\* applyDefaultVolumes: the player and target volume of each playerVolume
\* request, for the players whose stored volume is a number
DefaultVolumeCalls(players, volumes) ==
    LET withVolume == SelectSeq(players, LAMBDA p : ~IsNull(volumes[p]))
    IN  [i \in 1..Len(withVolume) |-> <<withVolume[i], volumes[withVolume[i]][1]>>]

\* the orders in which requests started together can reach the API
Orderings(s) ==
    {[i \in 1..Len(s) |-> s[f[i]]] :
        f \in {g \in [1..Len(s) -> 1..Len(s)] : \A i, j \in 1..Len(s) : g[i] = g[j] => i = j}}

\* favorites/play as it would be if the favorite were loaded without clearing
\* the queue
AfterVolumesWithoutClearing(route) == IF route = "favorites/play" THEN "favorite" ELSE "metadata"

\* what the handler does once applyDefaultVolumes has returned
AfterVolumes(route) == IF route = "favorites/play" THEN "queue" ELSE "metadata"

\* applyDefaultVolumes: skipped without a household; the stored volumes are
\* loaded and the players of the household are read, and a failure of either
\* ends it without a playerVolume request
ReadPlayersForVolumes ==
    /\ handler.pc = "volumes"
    /\ IF householdForVolumes(handler) = ""
       THEN /\ handler' = [handler EXCEPT !.pc = AfterVolumes(handler.route)]
            /\ sent' = sent
       ELSE \E outcome \in {"loadfail", "ok", "fail"} :
              /\ sent' = IF outcome = "loadfail" THEN sent
                         ELSE Append(sent, Call("GET", "groups", <<householdForVolumes(handler)>>, outcome))
              /\ handler' =
                    IF outcome = "ok"
                    THEN [handler EXCEPT
                            !.applied = TRUE,
                            !.pc = IF Len(DefaultVolumeCalls(handler.players, handler.volumes)) > 0
                                   THEN "playerVolume" ELSE AfterVolumes(handler.route)]
                    ELSE [handler EXCEPT !.pc = AfterVolumes(handler.route)]
    /\ UNCHANGED <<rules, nextId, calls, out, req, iv, speaker_volumes, speakerVolumes, tokenRows, tokens, issued, flights, oauth_states, callbacks, exchanges, initialized, initializationPromise, stores, invoked, requests>>

\* applyDefaultVolumes: the playerVolume requests are started together and all
\* of them have settled, whatever their outcome, before it returns
SendDefaultVolumes ==
    /\ handler.pc = "playerVolume"
    /\ \E jobs \in Orderings(DefaultVolumeCalls(handler.players, handler.volumes)) :
         \E status \in [1..Len(jobs) -> {"ok", "fail"}] :
            sent' = sent \o [i \in 1..Len(jobs) |-> Call("POST", "playerVolume", jobs[i], status[i])]
    /\ handler' = [handler EXCEPT !.pc = AfterVolumes(handler.route)]
    /\ UNCHANGED <<rules, nextId, calls, out, req, iv, speaker_volumes, speakerVolumes, tokenRows, tokens, issued, flights, oauth_states, callbacks, exchanges, initialized, initializationPromise, stores, invoked, requests>>

\* clearGroupQueue: one page of the queue is read at the offset reached
ReadQueuePage ==
    /\ handler.pc = "queue"
    /\ \E status \in {"ok", "404", "fail"} :
        /\ sent' = Append(sent, Call("GET", "queue/items", <<Len(handler.collected)>>, status))
        /\ handler' =
              IF status = "ok"
              THEN IF handler.pagesRead < Len(handler.queue)
                   THEN [handler EXCEPT
                           !.supported = TRUE,
                           !.pagesRead = handler.pagesRead + 1,
                           !.collected = handler.collected \o handler.queue[handler.pagesRead + 1],
                           !.pc = IF handler.pagesRead + 1 < Len(handler.queue)
                                  THEN "queue" ELSE "remove"]
                   ELSE [handler EXCEPT !.supported = TRUE, !.cleared = TRUE, !.pc = "favorite"]
              ELSE IF status = "404" \/ ~handler.supported
                   THEN [handler EXCEPT !.supported = FALSE, !.pc = "favorite"]
                   ELSE Failed(handler)
    /\ UNCHANGED <<rules, nextId, calls, out, req, iv, speaker_volumes, speakerVolumes, tokenRows, tokens, issued, flights, oauth_states, callbacks, exchanges, initialized, initializationPromise, stores, invoked, requests>>

\* clearGroupQueue: the ids collected are removed in chunks; a failed removal
\* ends the clearing and the handler goes on
RemoveChunk ==
    /\ handler.pc = "remove"
    /\ \E status \in {"ok", "fail"} :
         LET last  == IF handler.removed + chunkSize < Len(handler.collected)
                      THEN handler.removed + chunkSize ELSE Len(handler.collected)
             chunk == SubSeq(handler.collected, handler.removed + 1, last)
         IN  /\ sent' = Append(sent, Call("POST", "queue/items/remove", chunk, status))
             /\ handler' =
                   IF status = "fail" THEN [handler EXCEPT !.pc = "favorite"]
                   ELSE IF last < Len(handler.collected)
                        THEN [handler EXCEPT !.removed = last]
                        ELSE [handler EXCEPT !.removed = last, !.cleared = TRUE, !.pc = "favorite"]
    /\ UNCHANGED <<rules, nextId, calls, out, req, iv, speaker_volumes, speakerVolumes, tokenRows, tokens, issued, flights, oauth_states, callbacks, exchanges, initialized, initializationPromise, stores, invoked, requests>>

\* favorites/play: the favorite is loaded; the argument holds favoriteId,
\* queueAction and action
LoadFavorite ==
    /\ handler.pc = "favorite"
    /\ \E status \in {"ok", "4xx", "fail"} :
        /\ sent' = Append(sent, Call("POST", "favorites", <<"FAV", "REPLACE", "REPLACE">>, status))
        /\ handler' = IF status = "ok" THEN [handler EXCEPT !.pc = "playMode"]
                      ELSE IF status = "4xx" THEN [handler EXCEPT !.pc = "favoriteRetry"]
                      ELSE Failed(handler)
    /\ UNCHANGED <<rules, nextId, calls, out, req, iv, speaker_volumes, speakerVolumes, tokenRows, tokens, issued, flights, oauth_states, callbacks, exchanges, initialized, initializationPromise, stores, invoked, requests>>

\* favorites/play: after a client error the favorite is loaded once more
\* without queueAction
RetryFavorite ==
    /\ handler.pc = "favoriteRetry"
    /\ \E status \in {"ok", "fail"} :
        /\ sent' = Append(sent, Call("POST", "favorites", <<"FAV", "", "REPLACE">>, status))
        /\ handler' = IF status = "ok" THEN [handler EXCEPT !.pc = "playMode"] ELSE Failed(handler)
    /\ UNCHANGED <<rules, nextId, calls, out, req, iv, speaker_volumes, speakerVolumes, tokenRows, tokens, issued, flights, oauth_states, callbacks, exchanges, initialized, initializationPromise, stores, invoked, requests>>

\* favorites/play: the play modes are set
SetPlayMode ==
    /\ handler.pc = "playMode"
    /\ \E status \in {"ok", "fail"} :
        /\ sent' = Append(sent, Call("POST", "playMode",
                                     <<handler.shuffle, handler.repeat, handler.crossfade>>, status))
        /\ handler' = IF status = "ok" THEN [handler EXCEPT !.pc = "play"] ELSE Failed(handler)
    /\ UNCHANGED <<rules, nextId, calls, out, req, iv, speaker_volumes, speakerVolumes, tokenRows, tokens, issued, flights, oauth_states, callbacks, exchanges, initialized, initializationPromise, stores, invoked, requests>>

\* spotify-playlist: the options in the order the handler looks at them
OptionSteps == <<"shuffle", "repeat", "crossfade">>

\* spotify-playlist: the first requested option after option k, or play
StepAfter(h, k) ==
    LET later == {i \in (k + 1)..Len(OptionSteps) : h[OptionSteps[i]]}
    IN  IF later = {} THEN "play"
        ELSE OptionSteps[CHOOSE i \in later : \A j \in later : i <= j]

\* spotify-playlist: the playlist is loaded
LoadMetadata ==
    /\ handler.pc = "metadata"
    /\ \E status \in {"ok", "fail"} :
        /\ sent' = Append(sent, Call("POST", "metadata", <<"URI", "playlist">>, status))
        /\ handler' = IF status = "ok" THEN [handler EXCEPT !.pc = StepAfter(handler, 0)]
                      ELSE Failed(handler)
    /\ UNCHANGED <<rules, nextId, calls, out, req, iv, speaker_volumes, speakerVolumes, tokenRows, tokens, issued, flights, oauth_states, callbacks, exchanges, initialized, initializationPromise, stores, invoked, requests>>

\* spotify-playlist: if (shuffle)
SetShuffle ==
    /\ handler.pc = "shuffle"
    /\ \E status \in {"ok", "fail"} :
        /\ sent' = Append(sent, Call("POST", "shuffle", <<TRUE>>, status))
        /\ handler' = IF status = "ok" THEN [handler EXCEPT !.pc = StepAfter(handler, 1)]
                      ELSE Failed(handler)
    /\ UNCHANGED <<rules, nextId, calls, out, req, iv, speaker_volumes, speakerVolumes, tokenRows, tokens, issued, flights, oauth_states, callbacks, exchanges, initialized, initializationPromise, stores, invoked, requests>>

\* spotify-playlist: if (repeat)
SetRepeat ==
    /\ handler.pc = "repeat"
    /\ \E status \in {"ok", "fail"} :
        /\ sent' = Append(sent, Call("POST", "repeat", <<"on">>, status))
        /\ handler' = IF status = "ok" THEN [handler EXCEPT !.pc = StepAfter(handler, 2)]
                      ELSE Failed(handler)
    /\ UNCHANGED <<rules, nextId, calls, out, req, iv, speaker_volumes, speakerVolumes, tokenRows, tokens, issued, flights, oauth_states, callbacks, exchanges, initialized, initializationPromise, stores, invoked, requests>>

\* spotify-playlist: if (crossfade); "unavailable" is one of the statuses
\* 400, 404, 409, 412, 501, after which the handler goes on
SetCrossfade ==
    /\ handler.pc = "crossfade"
    /\ \E status \in {"ok", "unavailable", "fail"} :
        /\ sent' = Append(sent, Call("POST", "crossfade", <<TRUE>>, status))
        /\ handler' = IF status = "fail" THEN Failed(handler)
                      ELSE [handler EXCEPT !.pc = StepAfter(handler, 3)]
    /\ UNCHANGED <<rules, nextId, calls, out, req, iv, speaker_volumes, speakerVolumes, tokenRows, tokens, issued, flights, oauth_states, callbacks, exchanges, initialized, initializationPromise, stores, invoked, requests>>

\* both routes: play, then the response
Play ==
    /\ handler.pc = "play"
    /\ \E status \in {"ok", "fail"} :
        /\ sent' = Append(sent, Call("POST", "play", <<>>, status))
        /\ handler' = IF status = "ok" THEN [handler EXCEPT !.pc = "done", !.response = "ok"]
                      ELSE Failed(handler)
    /\ UNCHANGED <<rules, nextId, calls, out, req, iv, speaker_volumes, speakerVolumes, tokenRows, tokens, issued, flights, oauth_states, callbacks, exchanges, initialized, initializationPromise, stores, invoked, requests>>

NextPlayback ==
    \/ ReceiveRequest
    \/ ListHouseholds
    \/ GetSnapshot
    \/ SetGroupMembers
    \/ VerifyGroup
    \/ ReadPlayersForVolumes
    \/ SendDefaultVolumes
    \/ ReadQueuePage
    \/ RemoveChunk
    \/ LoadFavorite
    \/ RetryFavorite
    \/ SetPlayMode
    \/ LoadMetadata
    \/ SetShuffle
    \/ SetRepeat
    \/ SetCrossfade
    \/ Play

SpecPlayback == Init /\ [][NextPlayback]_vars

\* the positions in `sent` of the requests of one kind
Pos(call) == {i \in 1..Len(sent) : sent[i].call = call}

\* a request of that kind was sent before position i and succeeded
SucceededBefore(call, i) == \E j \in Pos(call) : j < i /\ sent[j].status = "ok"

RECURSIVE Flatten(_)
Flatten(pages) == IF Len(pages) = 0 THEN <<>> ELSE Head(pages) \o Flatten(Tail(pages))

\* the item ids of the removal requests sent, in order
RemovedIds == Flatten([i \in 1..Len(sent) |->
                  IF sent[i].call = "queue/items/remove" THEN sent[i].arg ELSE <<>>])

\* play, when sent, is the last request; the response is ok only after it
\* succeeded
PlayIsLast ==
    /\ \A i \in Pos("play") : i = Len(sent)
    /\ handler.response = "ok" =>
          /\ Len(sent) > 0
          /\ sent[Len(sent)].call = "play"
          /\ sent[Len(sent)].status = "ok"

C19_WitnessRemovalFailed ==
    /\ handler.pc = "done"
    /\ handler.route = "favorites/play"
    /\ handler.response = "ok"
    /\ \E i \in Pos("queue/items/remove") : sent[i].status = "fail"

---------------------------------------------------------------------------
(* Default volumes: GET and PUT /api/settings/volumes of server.js over    *)
(* loadSpeakerVolumes and saveSpeakerVolumes of settingsStore.js.          *)
(* A string is the sequence of its character codes.                        *)

\* the variables of the rule store and of the playback handlers
otherThanVolumes == <<rules, nextId, calls, iv, handler, sent, tokenRows, tokens, issued, flights, oauth_states, callbacks, exchanges, initialized, initializationPromise, stores, invoked, requests>>

\* values of a JSON request body
JsNumber(n) == [type |-> "number", num |-> n, str |-> <<>>]
JsString(s) == [type |-> "string", num |-> 0, str |-> s]
JsTrue == [type |-> "boolean", num |-> 1, str |-> <<>>]
JsNull == [type |-> "null", num |-> 0, str |-> <<>>]

\* the characters String.prototype.trim removes (here: space, tab, line feed)
IsWhiteSpace(c) == c \in {32, 9, 10}

RECURSIVE TrimStart(_)
TrimStart(s) == IF Len(s) > 0 /\ IsWhiteSpace(Head(s)) THEN TrimStart(Tail(s)) ELSE s

RECURSIVE TrimEnd(_)
TrimEnd(s) ==
    IF Len(s) > 0 /\ IsWhiteSpace(s[Len(s)]) THEN TrimEnd(SubSeq(s, 1, Len(s) - 1)) ELSE s

\* String.prototype.trim
Trim(s) == TrimEnd(TrimStart(s))

RECURSIVE DecimalValue(_)
\* the number written by a sequence of decimal digits
DecimalValue(s) ==
    IF Len(s) = 0 THEN 0 ELSE 10 * DecimalValue(SubSeq(s, 1, Len(s) - 1)) + (s[Len(s)] - 48)

\* Number(value), Null for NaN: a string is trimmed, the empty string is 0,
\* digits are their decimal value and any other text is NaN; true is 1 and
\* null is 0
ToNumber(value) ==
    CASE value.type = "number"  -> Arr(value.num)
      [] value.type = "boolean" -> Arr(value.num)
      [] value.type = "null"    -> Arr(0)
      [] value.type = "string"  ->
            LET t == Trim(value.str)
            IN  IF \A i \in 1..Len(t) : t[i] \in 48..57 THEN Arr(DecimalValue(t)) ELSE Null

\* Math.max(0, Math.min(100, n))
ClampVolume(n) == IF n < 0 THEN 0 ELSE IF n > 100 THEN 100 ELSE n

\* saveSpeakerVolumes: the keys whose value is null or ''
toDelete(map) ==
    {p \in DOMAIN map : map[p].type = "null" \/ (map[p].type = "string" /\ map[p].str = <<>>)}

\* saveSpeakerVolumes: sanitized, the volume of each key that is not deleted
\* and whose value converts to a number
sanitized(map) ==
    [p \in {q \in DOMAIN map \ toDelete(map) : ~IsNull(ToNumber(map[q]))} |->
        ClampVolume(ToNumber(map[p])[1])]

\* loadSpeakerVolumes: the map of the rows read, {} when the read fails
loadSpeakerVolumes(rows, fault) ==
    IF fault THEN NoVolumes
    ELSE [p \in VolumePlayers |-> IF IsNull(rows[p]) THEN Null ELSE Arr(ClampVolume(rows[p][1]))]

\* the values a client sends for a player: numbers, '', '  ', '42',
\* 'not-a-number', true and null
VolumeInputs ==
    {JsNumber(n) : n \in {0 - 5, 10, 100, 999}}
        \cup {JsString(s) : s \in {<<>>, <<32, 32>>, <<52, 50>>,
                                   <<110, 111, 116, 45, 97, 45, 110, 117, 109, 98, 101, 114>>}}
        \cup {JsTrue, JsNull}

\* the request bodies: a value for any of the players
VolumeBodies == UNION {[S -> VolumeInputs] : S \in SUBSET VolumePlayers}

\* saveSpeakerVolumes: the delete is issued and refused
DeleteVolumesFails(map, fault) == fault = "delete" /\ toDelete(map) # {}

\* saveSpeakerVolumes: the upsert is issued and refused
UpsertVolumesFails(map, fault) == fault = "upsert" /\ DOMAIN sanitized(map) # {}

\* saveSpeakerVolumes throws
SaveVolumesFails(map, fault) == DeleteVolumesFails(map, fault) \/ UpsertVolumesFails(map, fault)

\* the rows after saveSpeakerVolumes(map): the cleared keys are deleted, then
\* the sanitized ones upserted; a refused delete leaves the rows alone and a
\* refused upsert keeps the deletions
SavedVolumeRows(rows, map, fault) ==
    IF DeleteVolumesFails(map, fault) THEN rows
    ELSE LET deleted == [p \in VolumePlayers |-> IF p \in toDelete(map) THEN Null ELSE rows[p]]
         IN  IF UpsertVolumesFails(map, fault) THEN deleted
             ELSE [p \in VolumePlayers |->
                      IF p \in DOMAIN sanitized(map) THEN Arr(sanitized(map)[p]) ELSE deleted[p]]

\* PUT /api/settings/volumes; `log` tells whether the client's view of the
\* request (body and response) is recorded
PutVolumes(incoming, fault, loadFault, log) ==
    /\ speaker_volumes' = SavedVolumeRows(speaker_volumes, incoming, fault)
    /\ speakerVolumes' = IF SaveVolumesFails(incoming, fault) THEN speakerVolumes
                         ELSE loadSpeakerVolumes(speaker_volumes', loadFault)
    /\ IF log
       THEN /\ out' = IF SaveVolumesFails(incoming, fault)
                      THEN [op |-> "putVolumes", status |-> 400, body |-> NoVolumes,
                            before |-> speaker_volumes]
                      ELSE [op |-> "putVolumes", status |-> 200, body |-> speakerVolumes',
                            before |-> speaker_volumes]
            /\ req' = <<incoming, fault, loadFault>>
       ELSE UNCHANGED <<out, req>>
    /\ UNCHANGED otherThanVolumes

\* GET /api/settings/volumes
GetVolumes(loadFault) ==
    /\ speakerVolumes' = loadSpeakerVolumes(speaker_volumes, loadFault)
    /\ out' = [op |-> "getVolumes", status |-> 200, body |-> speakerVolumes',
               before |-> speaker_volumes]
    /\ req' = <<loadFault>>
    /\ UNCHANGED <<speaker_volumes, rules, nextId, calls, iv, handler, sent, tokenRows, tokens, issued, flights, oauth_states, callbacks, exchanges, initialized, initializationPromise, stores, invoked, requests>>

\* the requests made before the observed one
EarlierPutVolumesCall ==
    /\ out.op = "none"
    /\ \E incoming \in VolumeBodies, fault \in {"none", "delete", "upsert"} :
          PutVolumes(incoming, fault, FALSE, FALSE)

\* the observed request
ObservedPutVolumesCall ==
    /\ out.op = "none"
    /\ \E incoming \in VolumeBodies, fault \in {"none", "delete", "upsert"}, loadFault \in BOOLEAN :
          PutVolumes(incoming, fault, loadFault, TRUE)

\* a GET after the observed request
GetVolumesCall ==
    /\ out.op = "putVolumes"
    /\ \E loadFault \in BOOLEAN : GetVolumes(loadFault)

NextVolumes == EarlierPutVolumesCall \/ ObservedPutVolumesCall \/ GetVolumesCall

SpecVolumes == Init /\ [][NextVolumes]_vars

\* the observed PUT was answered 200
PutVolumesAnswered == out.op = "putVolumes" /\ out.status = 200

\* a value that is not a number and not a string of digits
NonNumeric(value) ==
    /\ value.type \in {"string", "boolean"}
    /\ value.type = "string" =>
          (Len(value.str) > 0 /\ \E i \in 1..Len(value.str) : value.str[i] \notin 48..57)

\* every stored volume is a number in 0..100
StoredVolumesInRange ==
    \A p \in VolumePlayers :
        ~IsNull(speaker_volumes[p]) => speaker_volumes[p][1] \in 0..100

\* an input below 0 is stored as 0 and one above 100 as 100
OutOfRangeIsClamped ==
    PutVolumesAnswered =>
        \A p \in DOMAIN req[1] :
            req[1][p].type = "number" =>
                /\ req[1][p].num < 0 => speaker_volumes[p] = Arr(0)
                /\ req[1][p].num > 100 => speaker_volumes[p] = Arr(100)

\* a GET whose read succeeds returns exactly the stored map
GetReturnsStoredMap ==
    (out.op = "getVolumes" /\ ~req[1]) => out.body = speaker_volumes

\* C21: after any sequence of PUT /api/settings/volumes every stored volume
\* is a number in 0..100, an input below 0 is stored as 0 and one above 100 as
\* 100, a non-numeric input leaves the stored volume of its player as it was,
\* and a GET afterwards returns exactly the stored map.
C21_VolumesSanitized ==
    /\ StoredVolumesInRange
    /\ OutOfRangeIsClamped
    /\ PutVolumesAnswered =>
          \A p \in DOMAIN req[1] :
              NonNumeric(req[1][p]) => speaker_volumes[p] = out.before[p]
    /\ GetReturnsStoredMap

\* what holds of C21: the same with "non-numeric" read as "Number(value) is NaN"
C21_PartsThatHold ==
    /\ StoredVolumesInRange
    /\ OutOfRangeIsClamped
    /\ PutVolumesAnswered =>
          \A p \in DOMAIN req[1] :
              IsNull(ToNumber(req[1][p])) => speaker_volumes[p] = out.before[p]
    /\ GetReturnsStoredMap

\* a PUT of -5, of 999 and of 'not-a-number' was answered, over stored volumes
C21_PartsWitness ==
    /\ PutVolumesAnswered
    /\ \E p \in DOMAIN req[1] : req[1][p] = JsNumber(999) /\ ~IsNull(out.before[p])
    /\ \E p \in DOMAIN req[1] : IsNull(ToNumber(req[1][p])) /\ ~IsNull(out.before[p])

---------------------------------------------------------------------------
(* Tokens and requests to the speaker API: sonosRequest,                   *)
(* ensureValidAccessToken, refreshAccessToken and handleProxyError of      *)
(* server.js over loadTokens, saveTokens and clearTokens of tokenStore.js. *)
(* A request of a device advances one await at a time; requests of         *)
(* different devices interleave.                                           *)

\* the number of access tokens the authorization server issues for a device
MaxIssued == 2

otherThanTokens == <<rules, nextId, calls, req, iv, handler, sent, speaker_volumes, speakerVolumes, oauth_states, callbacks, exchanges, initialized, initializationPromise, stores, invoked, requests>>

\* storeTokens: the g-th tokens issued for the device; expires_at 1 is a time
\* after the tokens were issued
storeTokens(d, g) ==
    [access_token |-> Arr(<<d, g>>), refresh_token |-> Arr(<<d, g>>), expires_at |-> 1]

\* loadTokens: the row of the device, empty tokens when the read fails
loadTokens(rows, d, fault) == IF fault THEN ClearedTokens ELSE rows[d]

\* clearTokens: the row of the device is blanked, unless the update fails
clearTokens(rows, d, fault) == IF fault THEN rows ELSE [rows EXCEPT ![d] = ClearedTokens]

\* Date.now() >= expires_at; `late` tells whether the time of expiry has passed
Expired(deviceTokens, late) == deviceTokens.expires_at = 0 \/ late

\* the devices that signed out and have not completed a login since
SignedOut == IF out.op = "auth" THEN out.signedOut ELSE {}

\* a request handler of the route kind `caller` starts sonosRequest
NewFlight(d, caller, original) ==
    [pc |-> "load", caller |-> caller, reason |-> "expiry", header |-> Null,
     rejected |-> Null, sends |-> 0, refreshes |-> 0, status |-> 0,
     original |-> original, loggedIn |-> FALSE, afterSignout |-> d \in SignedOut,
     response |-> 0]

\* the route has answered: the client sees the status and, for /auth/status,
\* loggedIn
Answered(f, response, loggedIn) ==
    [NewFlight("", f.caller, Null) EXCEPT !.pc = "answered", !.response = response,
                                          !.loggedIn = loggedIn, !.afterSignout = f.afterSignout]

\* sonosRequest throws an error with that status (0: an error without status)
Throw(f, status) == [f EXCEPT !.pc = "failed", !.status = status]

\* the request is sent with the Authorization header built from `token`
Send(f, token, pc) == [f EXCEPT !.pc = pc, !.header = token, !.sends = f.sends + 1]

\* a route that calls sonosRequest and answers errors with handleProxyError
StartRequest(d) ==
    /\ flights[d].pc \in {"idle", "answered"}
    /\ flights' = [flights EXCEPT ![d] = NewFlight(d, "api", tokens)]
    /\ UNCHANGED <<tokenRows, tokens, issued, out>>
    /\ UNCHANGED otherThanTokens

\* ensureValidAccessToken up to the first send of sonosRequest
EnsureValidAccessToken(d) ==
    /\ flights[d].pc = "load"
    /\ \E fault \in BOOLEAN, late \in BOOLEAN :
         LET deviceTokens == loadTokens(tokenRows, d, fault)
         IN  IF IsNull(deviceTokens.access_token)
             THEN /\ flights' = [flights EXCEPT ![d] = Throw(@, 401)]
                  /\ tokens' = tokens
             ELSE IF Expired(deviceTokens, late)
             THEN /\ flights' = [flights EXCEPT ![d] = [@ EXCEPT !.pc = "refreshLoad"]]
                  /\ tokens' = tokens
             ELSE /\ tokens' = Arr(deviceTokens)
                  /\ flights' = [flights EXCEPT ![d] = Send(@, tokens'[1].access_token, "await1")]
    /\ UNCHANGED <<tokenRows, issued, out>>
    /\ UNCHANGED otherThanTokens

\* refreshAccessToken: the stored tokens are loaded for their refresh token
RefreshLoad(d) ==
    /\ flights[d].pc = "refreshLoad"
    /\ \E fault \in BOOLEAN :
         flights' = [flights EXCEPT ![d] =
                        IF IsNull(loadTokens(tokenRows, d, fault).refresh_token)
                        THEN Throw(@, 401) ELSE [@ EXCEPT !.pc = "refreshPost"]]
    /\ UNCHANGED <<tokenRows, tokens, issued, out>>
    /\ UNCHANGED otherThanTokens

\* the token the Authorization header of the second send is built from
RetryToken(d, refreshed) == tokens[1].access_token

\* refreshAccessToken: the authorization server refuses (the stored tokens
\* are cleared and its status is thrown) or issues new tokens, which are
\* saved; then ensureValidAccessToken assigns them to `tokens` and the
\* request is sent, or sonosRequest sends the request again with the access
\* token it reads from `tokens`
RefreshPost(d) ==
    /\ flights[d].pc = "refreshPost"
    /\ \E outcome \in {"issued", "savefail", "refused"}, fault \in BOOLEAN :
         LET refreshed == storeTokens(d, issued[d] + 1)
         IN  CASE outcome = "refused" ->
                    /\ tokenRows' = clearTokens(tokenRows, d, fault)
                    /\ flights' = [flights EXCEPT ![d] = Throw(@, 400)]
                    /\ UNCHANGED <<tokens, issued>>
               [] outcome = "savefail" ->
                    /\ issued[d] < MaxIssued /\ ~fault
                    /\ issued' = [issued EXCEPT ![d] = @ + 1]
                    /\ flights' = [flights EXCEPT ![d] = Throw(@, 0)]
                    /\ UNCHANGED <<tokens, tokenRows>>
               [] outcome = "issued" ->
                    /\ issued[d] < MaxIssued /\ ~fault
                    /\ issued' = [issued EXCEPT ![d] = @ + 1]
                    /\ tokenRows' = [tokenRows EXCEPT ![d] = refreshed]
                    /\ IF flights[d].reason = "expiry"
                       THEN /\ tokens' = Arr(refreshed)
                            /\ flights' = [flights EXCEPT ![d] =
                                              Send(@, refreshed.access_token, "await1")]
                       ELSE /\ tokens' = tokens
                            /\ flights' = [flights EXCEPT ![d] =
                                              IF IsNull(tokens)
                                              THEN Throw([@ EXCEPT !.refreshes = @ + 1], 0)
                                              ELSE Send([@ EXCEPT !.refreshes = @ + 1],
                                                        RetryToken(d, refreshed), "await2")]
    /\ UNCHANGED out
    /\ UNCHANGED otherThanTokens

\* sonosRequest: the answer to the first send; a 401 starts a refresh when
\* `tokens` holds a refresh token; reading a field of `tokens` while it is
\* null throws an error without status
FirstAnswer(d) ==
    /\ flights[d].pc = "await1"
    /\ \E status \in {200, 401, 500} :
         flights' = [flights EXCEPT ![d] =
            IF status = 401 /\ IsNull(tokens) THEN Throw(@, 0)
            ELSE IF status = 401 /\ ~IsNull(tokens[1].refresh_token)
            THEN [@ EXCEPT !.pc = "refreshLoad", !.reason = "401", !.rejected = flights[d].header]
            ELSE IF status = 200 THEN [@ EXCEPT !.pc = "done", !.status = 200]
            ELSE Throw(@, status)]
    /\ UNCHANGED <<tokenRows, tokens, issued, out>>
    /\ UNCHANGED otherThanTokens

\* sonosRequest: the answer to the second send; a 401 clears the stored tokens
SecondAnswer(d) ==
    /\ flights[d].pc = "await2"
    /\ \E status \in {200, 401, 500}, fault \in BOOLEAN :
         /\ status # 401 => ~fault
         /\ tokenRows' = IF status = 401 THEN clearTokens(tokenRows, d, fault) ELSE tokenRows
         /\ flights' = [flights EXCEPT ![d] =
               IF status = 200 THEN [@ EXCEPT !.pc = "done", !.status = 200] ELSE Throw(@, status)]
    /\ UNCHANGED <<tokens, issued, out>>
    /\ UNCHANGED otherThanTokens

\* the route answers: the response when sonosRequest returned, otherwise
\* handleProxyError, which blanks the fields of `tokens` on a 401; with
\* `tokens` null the assignment throws and no response is sent
Respond(d) ==
    /\ flights[d].pc \in {"done", "failed"}
    /\ flights[d].caller = "api"
    /\ LET status == IF flights[d].pc = "done" THEN 200
                     ELSE IF flights[d].status = 0 THEN 500 ELSE flights[d].status
       IN  IF status = 401 /\ IsNull(tokens)
           THEN /\ flights' = [flights EXCEPT ![d] = [@ EXCEPT !.pc = "crashed"]]
                /\ tokens' = tokens
           ELSE /\ tokens' = IF status = 401 THEN Arr(ClearedTokens) ELSE tokens
                /\ flights' = [flights EXCEPT ![d] = Answered(@, status, FALSE)]
    /\ UNCHANGED <<tokenRows, issued, out>>
    /\ UNCHANGED otherThanTokens

\* an OAuth login of the device completes: the tokens exchanged for the code
\* are saved (exchangeCodeForTokens); a request in progress no longer counts
\* as one made while signed out
Login(d) ==
    /\ issued[d] < MaxIssued
    /\ issued' = [issued EXCEPT ![d] = @ + 1]
    /\ tokenRows' = [tokenRows EXCEPT ![d] = storeTokens(d, issued[d] + 1)]
    /\ out' = [op |-> "auth", signedOut |-> SignedOut \ {d}]
    /\ flights' = [flights EXCEPT ![d] =
                      IF @.pc = "idle" THEN @ ELSE [@ EXCEPT !.afterSignout = FALSE]]
    /\ UNCHANGED tokens
    /\ UNCHANGED otherThanTokens

\* POST /auth/signout: answers ok once clearTokens has returned
Signout(d) ==
    /\ \E fault \in BOOLEAN : tokenRows' = clearTokens(tokenRows, d, fault)
    /\ out' = [op |-> "auth", signedOut |-> SignedOut \cup {d}]
    /\ UNCHANGED <<tokens, issued, flights>>
    /\ UNCHANGED otherThanTokens

\* GET /auth/status: the stored tokens are loaded; without a valid access
\* token the answer is loggedIn false, otherwise `tokens` is set to them and
\* the token is verified with sonosRequest
StatusRequest(d) ==
    /\ flights[d].pc \in {"idle", "answered"}
    /\ \E fault \in BOOLEAN, late \in BOOLEAN :
         LET deviceTokens == loadTokens(tokenRows, d, fault)
         IN  IF IsNull(deviceTokens.access_token) \/ Expired(deviceTokens, late)
             THEN /\ flights' = [flights EXCEPT ![d] =
                                    Answered(NewFlight(d, "status", tokens), 200, FALSE)]
                  /\ tokens' = tokens
             ELSE /\ flights' = [flights EXCEPT ![d] = NewFlight(d, "status", tokens)]
                  /\ tokens' = Arr(deviceTokens)
    /\ UNCHANGED <<tokenRows, issued, out>>
    /\ UNCHANGED otherThanTokens

\* GET /auth/status: sonosRequest has ended; a 401 clears the stored tokens
\* and gives loggedIn false, `tokens` is put back and the answer is sent
StatusAnswer(d) ==
    /\ flights[d].pc \in {"done", "failed"}
    /\ flights[d].caller = "status"
    /\ LET unauthorized == flights[d].pc = "failed" /\ flights[d].status = 401
       IN  /\ \E fault \in BOOLEAN :
                /\ ~unauthorized => ~fault
                /\ tokenRows' = IF unauthorized THEN clearTokens(tokenRows, d, fault) ELSE tokenRows
           /\ flights' = [flights EXCEPT ![d] = Answered(@, 200, ~unauthorized)]
    /\ tokens' = flights[d].original
    /\ UNCHANGED <<issued, out>>
    /\ UNCHANGED otherThanTokens

\* requests of the devices to routes that proxy the speaker API
NextTokens ==
    \E d \in Devices :
        \/ Login(d)
        \/ StartRequest(d)
        \/ EnsureValidAccessToken(d)
        \/ RefreshLoad(d)
        \/ RefreshPost(d)
        \/ FirstAnswer(d)
        \/ SecondAnswer(d)
        \/ Respond(d)

SpecTokens == Init /\ [][NextTokens]_vars

\* logins, signouts and status checks of the devices
NextAuth ==
    \E d \in Devices :
        \/ Login(d)
        \/ Signout(d)
        \/ StatusRequest(d)
        \/ StatusAnswer(d)
        \/ EnsureValidAccessToken(d)
        \/ RefreshLoad(d)
        \/ RefreshPost(d)
        \/ FirstAnswer(d)
        \/ SecondAnswer(d)

SpecAuth == Init /\ [][NextAuth]_vars

\* C22: once POST /auth/signout for a device has answered ok, every GET
\* /auth/status made for that device afterwards, and before a new login of
\* the device completes, answers loggedIn false.
C22_SignedOutStaysLoggedOut ==
    [][\A d \in Devices :
          (/\ flights[d].pc # "answered"
           /\ flights'[d].pc = "answered"
           /\ flights'[d].caller = "status"
           /\ flights'[d].afterSignout
           /\ d \in SignedOut)
              => ~flights'[d].loggedIn]_vars

---------------------------------------------------------------------------
(* The seeded selection of getRecommendedPlaylists on its own: the hash    *)
(* loop continued from any 32-bit value, primaryIndex, primary and         *)
(* alternatives.                                                           *)

\* the largest number of filtered candidates
MaxCandidates == 4

\* values of seedValue the loop is continued from: 0, 1, 65535, 65536, 65537,
\* 2^31 - 1, -2^31, -2^31 + 1, -1 and others
SeedInputs == {<<high, low>> : high \in {0, 1, 32767, 32768, 65535}, low \in {0, 1, 65535}}

\* the rest of the seed string: nothing, "1", "-2"
SeedSuffixes == {<<>>, <<49>>, <<45, 50>>}

\* matchingPlaylists[primaryIndex], Null (undefined) outside the list
primaryOf(matchingPlaylists, index) ==
    IF index + 1 \in 1..Len(matchingPlaylists) THEN Arr(matchingPlaylists[index + 1]) ELSE Null

\* matchingPlaylists.filter((_, index) => index !== primaryIndex)
alternativesOf(matchingPlaylists, index) ==
    LET kept == SelectSeq([i \in 1..Len(matchingPlaylists) |-> i], LAMBDA i : i - 1 # index)
    IN  [k \in 1..Len(kept) |-> matchingPlaylists[kept[k]]]

\* the selection among n candidates with the loop continued from `seed` over
\* `codes`
SelectCall ==
    \E seed \in SeedInputs, codes \in SeedSuffixes, n \in 1..MaxCandidates :
        LET matchingPlaylists == [i \in 1..n |-> i]
            seedValue == HashFrom(codes, 1, seed)
            index == AbsoluteModulo(seedValue, n)
        IN  /\ iv' = [op |-> "select", seedValue |-> seedValue, primaryIndex |-> index,
                      matchingPlaylists |-> matchingPlaylists,
                      primary |-> primaryOf(matchingPlaylists, index),
                      alternatives |-> alternativesOf(matchingPlaylists, index)]
            /\ UNCHANGED <<rules, nextId, calls, out, req, handler, sent, speaker_volumes, speakerVolumes, tokenRows, tokens, issued, flights, oauth_states, callbacks, exchanges, initialized, initializationPromise, stores, invoked, requests>>

NextSelect == SelectCall

SpecSelect == Init /\ [][NextSelect]_vars

\* C23: with n >= 1 candidates, whatever value the hash has reached,
\* primaryIndex is in 0..n-1, primary is the candidate at primaryIndex,
\* alternatives has n-1 items, holds every candidate but primary and keeps
\* the order of the candidates.
C23_PrimaryIsACandidate ==
    (iv # NoIv /\ iv.op = "select") =>
        LET n == Len(iv.matchingPlaylists)
        IN  /\ iv.primaryIndex \in 0..(n - 1)
            /\ ~IsNull(iv.primary)
            /\ iv.primary[1] = iv.matchingPlaylists[iv.primaryIndex + 1]
            /\ Len(iv.alternatives) = n - 1
            /\ Range(iv.alternatives) = Range(iv.matchingPlaylists) \ {iv.primary[1]}
            /\ \A i, j \in 1..(n - 1) : i < j => iv.alternatives[i] < iv.alternatives[j]

\* a selection from a negative hash value that picks neither the first nor
\* the last of four candidates
C23_Witness ==
    /\ iv # NoIv /\ iv.op = "select"
    /\ iv.seedValue[1] >= 32768
    /\ Len(iv.matchingPlaylists) = MaxCandidates
    /\ iv.primaryIndex \in 1..(MaxCandidates - 2)

---------------------------------------------------------------------------
(* The optional name of a rule: its normalisation in saveVibeTimeRule and  *)
(* in loadVibeTimeRules.  A stored name is Null or Arr(codes).             *)

\* the longest name submitted
MaxNameLen == 4

otherThanName == <<rules, nextId, calls, out, req, handler, sent, speaker_volumes, speakerVolumes, tokenRows, tokens, issued, flights, oauth_states, callbacks, exchanges, initialized, initializationPromise, stores, invoked, requests>>

RECURSIVE StringsUpTo(_, _)
\* the strings of at most n characters over the alphabet
StringsUpTo(alphabet, n) ==
    IF n = 0 THEN {<<>>}
    ELSE LET shorter == StringsUpTo(alphabet, n - 1)
         IN  shorter \cup {Append(s, c) : s \in shorter, c \in alphabet}

\* rule.name as submitted: strings of spaces, tabs and the letter a, a number,
\* null
NameInputs == {JsString(s) : s \in StringsUpTo({32, 9, 97}, MaxNameLen)} \cup {JsNumber(7), JsNull}

\* the truth value of a JavaScript value in a condition
Truthy(value) ==
    CASE value.type = "string"  -> Len(value.str) > 0
      [] value.type = "number"  -> value.num # 0
      [] value.type = "boolean" -> value.num = 1
      [] value.type = "null"    -> FALSE

\* saveVibeTimeRule: the name written to the row
savedName(ruleName) ==
    LET name == IF Truthy(ruleName) /\ ruleName.type = "string"
                THEN JsString(Trim(ruleName.str)) ELSE JsNull
    IN  IF Truthy(name) /\ Len(name.str) = 0 THEN Null
        ELSE IF name.type = "string" THEN Arr(name.str) ELSE Null

\* loadVibeTimeRules: the name of the sanitized rule
loadedName(rowName) == IF IsNull(rowName) THEN Null ELSE Arr(Trim(rowName[1]))

\* a rule with that name is saved and loaded again
NameCall ==
    \E ruleName \in NameInputs :
        /\ iv' = [op |-> "name", submitted |-> ruleName, saved |-> savedName(ruleName),
                  loaded |-> loadedName(savedName(ruleName))]
        /\ UNCHANGED otherThanName

NextName == NameCall

SpecName == Init /\ [][NextName]_vars

\* C24: a string name is stored and returned trimmed, and a name that is
\* empty, or empty after trimming, is stored and returned as absent (null),
\* never as an empty string.
C24_EmptyNameIsAbsent ==
    (iv # NoIv /\ iv.op = "name") =>
        /\ iv.saved # Arr(<<>>)
        /\ iv.loaded # Arr(<<>>)
        /\ (iv.submitted.type = "string" /\ Len(Trim(iv.submitted.str)) > 0) =>
              (iv.saved = Arr(Trim(iv.submitted.str)) /\ iv.loaded = iv.saved)
        /\ iv.submitted.type # "string" => (iv.saved = Null /\ iv.loaded = Null)

\* what holds of C24: the empty string and a value that is not a string are
\* stored as absent, any other string is stored and returned trimmed
C24_PartsThatHold ==
    (iv # NoIv /\ iv.op = "name") =>
        /\ (iv.submitted.type # "string" \/ Len(iv.submitted.str) = 0) =>
              (iv.saved = Null /\ iv.loaded = Null)
        /\ (iv.submitted.type = "string" /\ Len(iv.submitted.str) > 0) =>
              (iv.saved = Arr(Trim(iv.submitted.str)) /\ iv.loaded = iv.saved)

---------------------------------------------------------------------------
(* Properties of the requests to the speaker API (SpecTokens)              *)

\* the request of the device is on its way to the speaker API
InFlight(d) == flights[d].pc \in {"await1", "await2"}

\* C25: under any interleaving of the requests of two devices, a request sent
\* on behalf of device d, first send or retry, carries an access token issued
\* for d; in particular it never carries the token of the other device and
\* never the blank token left by a 401 handled for the other device.
C25_RequestCarriesTokenOfItsDevice ==
    \A d \in Devices :
        InFlight(d) => (~IsNull(flights[d].header) /\ flights[d].header[1][1] = d)

\* what holds of C25: the first send of a request carries a token of its device
C25_FirstSendCarriesTokenOfItsDevice ==
    \A d \in Devices :
        flights[d].pc = "await1" => (~IsNull(flights[d].header) /\ flights[d].header[1][1] = d)

\* C26: after a 401 answer and a refresh, the request is sent again with the
\* access token the refresh has just issued and stored for the device, not
\* with the access token that was rejected.
C26_RetryUsesNewToken ==
    \A d \in Devices :
        flights[d].pc = "await2" =>
            /\ flights[d].header # flights[d].rejected
            /\ flights[d].header = Arr(<<d, issued[d]>>)

\* C27: handleProxyError always sends a response, in every state of the
\* process-wide token variable: no failed request is left without a response,
\* including a 401 raised for a device that has no stored token while
\* `tokens` is still null.
C27_ProxyErrorAlwaysResponds ==
    \A d \in Devices : flights[d].pc # "crashed"

\* what holds of C27: when a response is sent for a failed request, its
\* status is the status of the error, 500 when the error has none
C27_ResponseCarriesErrorStatus ==
    [][\A d \in Devices :
          (flights[d].pc = "failed" /\ flights[d].caller = "api"
             /\ flights'[d].pc # "failed" /\ flights'[d].pc # "crashed")
          => flights'[d].response = (IF flights[d].status = 0 THEN 500 ELSE flights[d].status)]_vars

\* the sonosRequest call of the device is in progress or has just ended
InCall(f) == f.pc \in {"load", "refreshLoad", "refreshPost", "await1", "await2", "done", "failed"}

\* how far a sonosRequest call has got: every step of the call increases it
Progress(f) ==
    CASE f.pc = "load" -> 0
      [] f.pc = "refreshLoad" /\ f.reason = "expiry" -> 1
      [] f.pc = "refreshPost" /\ f.reason = "expiry" -> 2
      [] f.pc = "await1" -> 3
      [] f.pc = "refreshLoad" /\ f.reason = "401" -> 4
      [] f.pc = "refreshPost" /\ f.reason = "401" -> 5
      [] f.pc = "await2" -> 6
      [] OTHER -> 7

\* the call makes at most two sends and at most one refresh triggered by a 401
AtMostTwoSends(f) == InCall(f) => (f.sends <= 2 /\ f.refreshes <= 1)

\* the re-sent request is answered 401: the call fails with status 401
SecondAnswerIs401(d) ==
    flights[d].pc = "await2" /\ flights'[d].pc = "failed" /\ flights'[d].status = 401

\* the refresh is refused: the refusal's status is raised without another send
RefreshIsRefused(d) ==
    /\ flights[d].pc = "refreshPost" /\ flights'[d].pc = "failed"
    /\ flights'[d].status = 400 /\ flights'[d].sends = flights[d].sends

\* C29: every sonosRequest call ends with a response or a raised error after
\* at most two sends and at most one refresh triggered by a 401; when the
\* re-sent request is answered 401 the stored tokens of the device are
\* cleared and the call fails with 401; when the refresh is refused the
\* stored tokens of the device are cleared and the status of the refusal
\* is raised without a second send.
C29_SonosRequestTerminatesAndClears ==
    [][\A d \in Devices :
          /\ AtMostTwoSends(flights'[d])
          /\ (InCall(flights[d]) /\ InCall(flights'[d]) /\ flights'[d] # flights[d])
                => Progress(flights'[d]) > Progress(flights[d])
          /\ (SecondAnswerIs401(d) \/ RefreshIsRefused(d)) => tokenRows'[d] = ClearedTokens]_vars

\* what holds of C29: the bounds on sends and refreshes, the progress of the
\* call, and the statuses raised; the stored tokens are cleared or left as
\* they were (the update of clearTokens has failed)
C29_PartsThatHold ==
    [][\A d \in Devices :
          /\ AtMostTwoSends(flights'[d])
          /\ (InCall(flights[d]) /\ InCall(flights'[d]) /\ flights'[d] # flights[d])
                => Progress(flights'[d]) > Progress(flights[d])
          /\ (SecondAnswerIs401(d) \/ RefreshIsRefused(d))
                => tokenRows'[d] \in {ClearedTokens, tokenRows[d]}
          /\ (flights[d].pc = "await2" /\ flights'[d].pc = "failed")
                => flights'[d].status \in {401, 500}
          /\ (flights[d].pc = "refreshPost" /\ flights'[d].pc = "failed")
                => flights'[d].sends = flights[d].sends]_vars

---------------------------------------------------------------------------
(* OAuth login and callback (SpecOAuth)                                    *)

\* the token exchanges the model follows for one OAuth state
MaxExchanges == 2

otherThanOAuth == <<rules, nextId, calls, out, req, iv, handler, sent, speaker_volumes, speakerVolumes, tokens, flights, initialized, initializationPromise, stores, invoked, requests>>

\* crypto.randomBytes(16): a value that no login has produced before and
\* that no request carries yet
FreshState(s) ==
    /\ IsNull(oauth_states[s])
    /\ exchanges[s] = 0
    /\ \A c \in Callbacks : IF callbacks[c].pc = "idle" THEN TRUE ELSE callbacks[c].state # s

\* saveOAuthState: the row of the state is upserted, or the upsert fails
saveOAuthState(rows, s, d, fault) == IF fault THEN rows ELSE [rows EXCEPT ![s] = Arr(d)]

\* getDeviceIdFromState: the device of the stored row, null when there is no
\* row and on every error
getDeviceIdFromState(rows, s, fault) == IF fault THEN Null ELSE rows[s]

\* deleteOAuthState: the row is deleted; every error is swallowed
deleteOAuthState(rows, s, fault) == IF fault THEN rows ELSE [rows EXCEPT ![s] = Null]

\* the callback request has been answered with a redirect to /?auth=<redirect>
Redirected(cb, redirect) == [pc |-> "answered", state |-> cb.state, later |-> cb.later, redirect |-> redirect]

\* GET /auth/sonos/login: a fresh state is generated and saved for the device
LoginRoute(d, s) ==
    /\ FreshState(s)
    /\ \E fault \in BOOLEAN : oauth_states' = saveOAuthState(oauth_states, s, d, fault)
    /\ UNCHANGED <<callbacks, exchanges, tokenRows, issued>>
    /\ UNCHANGED otherThanOAuth

\* GET /auth/sonos/callback arrives with a code and a state; `later` tells
\* whether a callback with the same state has made its exchange attempt and
\* has been answered before
CallbackArrives(c, s) ==
    /\ callbacks[c].pc \in {"idle", "answered"}
    /\ callbacks' = [callbacks EXCEPT ![c] =
          [pc |-> "lookup", state |-> s, deviceId |-> Null, redirect |-> "",
           later |-> /\ exchanges[s] > 0
                     /\ \A o \in Callbacks \ {c} :
                           IF callbacks[o].pc \in {"idle", "answered"} THEN TRUE
                           ELSE callbacks[o].state # s]]
    /\ UNCHANGED <<oauth_states, exchanges, tokenRows, issued>>
    /\ UNCHANGED otherThanOAuth

\* the callback looks the state up: without a device it redirects to
\* invalid_state
LookupState(c) ==
    /\ callbacks[c].pc = "lookup"
    /\ \E fault \in BOOLEAN :
         LET deviceId == getDeviceIdFromState(oauth_states, callbacks[c].state, fault)
         IN  callbacks' = [callbacks EXCEPT ![c] =
                 IF IsNull(deviceId) THEN Redirected(@, "invalid_state")
                 ELSE [@ EXCEPT !.pc = "exchange", !.deviceId = deviceId]]
    /\ UNCHANGED <<oauth_states, exchanges, tokenRows, issued>>
    /\ UNCHANGED otherThanOAuth

\* exchangeCodeForTokens: the code is posted to the authorization server;
\* the tokens it answers with are saved for the device
ExchangeCodeForTokens(c) ==
    /\ callbacks[c].pc = "exchange"
    /\ exchanges[callbacks[c].state] < MaxExchanges
    /\ exchanges' = [exchanges EXCEPT ![callbacks[c].state] = @ + 1]
    /\ \E outcome \in {"saved", "savefail", "refused"} :
         LET d == callbacks[c].deviceId[1]
         IN  CASE outcome = "refused" ->
                    /\ callbacks' = [callbacks EXCEPT ![c] = [@ EXCEPT !.pc = "delete", !.redirect = "error"]]
                    /\ UNCHANGED <<tokenRows, issued>>
               [] outcome = "savefail" ->
                    /\ issued[d] < MaxIssued
                    /\ issued' = [issued EXCEPT ![d] = @ + 1]
                    /\ callbacks' = [callbacks EXCEPT ![c] = [@ EXCEPT !.pc = "delete", !.redirect = "error"]]
                    /\ UNCHANGED tokenRows
               [] outcome = "saved" ->
                    /\ issued[d] < MaxIssued
                    /\ issued' = [issued EXCEPT ![d] = @ + 1]
                    /\ tokenRows' = [tokenRows EXCEPT ![d] = storeTokens(d, issued[d] + 1)]
                    /\ callbacks' = [callbacks EXCEPT ![c] = [@ EXCEPT !.pc = "delete", !.redirect = "success"]]
    /\ UNCHANGED oauth_states
    /\ UNCHANGED otherThanOAuth

\* the callback deletes the state after the exchange attempt and redirects
DeleteState(c) ==
    /\ callbacks[c].pc = "delete"
    /\ \E fault \in BOOLEAN :
         oauth_states' = deleteOAuthState(oauth_states, callbacks[c].state, fault)
    /\ callbacks' = [callbacks EXCEPT ![c] = Redirected(@, @.redirect)]
    /\ UNCHANGED <<exchanges, tokenRows, issued>>
    /\ UNCHANGED otherThanOAuth

NextOAuth ==
    \/ \E d \in Devices, s \in OAuthStates : LoginRoute(d, s)
    \/ \E c \in Callbacks, s \in OAuthStates : CallbackArrives(c, s)
    \/ \E c \in Callbacks : LookupState(c)
    \/ \E c \in Callbacks : ExchangeCodeForTokens(c)
    \/ \E c \in Callbacks : DeleteState(c)

SpecOAuth == Init /\ [][NextOAuth]_vars

\* C28: an OAuth state leads to at most one token exchange, and a callback
\* that arrives with a state after the exchange attempt made for that state
\* has been answered redirects to invalid_state: it exchanges no code and
\* writes no tokens.
C28_StateExchangedAtMostOnce ==
    [][/\ \A s \in OAuthStates : exchanges'[s] <= 1
       /\ \A c \in Callbacks :
             (callbacks[c].pc = "lookup" /\ callbacks[c].later)
                => (callbacks'[c] = callbacks[c] \/ callbacks'[c].pc = "answered")]_vars

\* what holds of C28: a callback whose state has no stored row redirects to
\* invalid_state, and a callback that is answered without an exchange neither
\* exchanges a code nor writes tokens
C28_UnknownStateIsRejected ==
    [][\A c \in Callbacks :
          (callbacks[c].pc = "lookup" /\ callbacks'[c] # callbacks[c])
             => /\ IsNull(oauth_states[callbacks[c].state])
                   => (callbacks'[c].pc = "answered" /\ callbacks'[c].redirect = "invalid_state")
                /\ callbacks'[c].pc = "answered"
                   => (exchanges' = exchanges /\ tokenRows' = tokenRows)]_vars

---------------------------------------------------------------------------
(* Lazy initialization of the data stores (SpecInit)                       *)

otherThanInit == <<rules, nextId, calls, out, req, iv, handler, sent, speaker_volumes, speakerVolumes, tokenRows, tokens, issued, flights, oauth_states, callbacks, exchanges>>

\* the first store from position i on whose variable is still null, 0 when
\* there is none: the next loader the initialization calls
RECURSIVE NextLoader(_, _)
NextLoader(st, i) ==
    IF i > Len(Stores) THEN 0
    ELSE IF st[i] = "null" THEN i
    ELSE NextLoader(st, i + 1)

\* ensureInitialized without the check of initializationPromise
ensureInitializedWithoutPromise(init, promise) ==
    IF init THEN "return" ELSE "start"

\* ensureInitialized up to its first await: it returns at once, returns the
\* promise of the initialization in progress, or starts the initialization
ensureInitialized(init, promise) ==
    IF init THEN "return"
    ELSE IF ~IsNull(promise) THEN "wait"
    ELSE "start"

\* the promise created by the call of request p has settled: the
\* initialization that call started has run to its end
Settled(p) == requests[p].pc # "loading"

\* the initialization calls the loader of store i, or finishes when no store
\* is left to load
Continue(r, st, i) ==
    IF i = 0
    THEN /\ initialized' = TRUE
         /\ invoked' = invoked
         /\ requests' = [requests EXCEPT ![r] = [pc |-> "waiting", awaits |-> r]]
    ELSE /\ initialized' = initialized
         /\ invoked' = [invoked EXCEPT ![i] = @ + 1]
         /\ requests' = [requests EXCEPT ![r] = [pc |-> "loading", awaits |-> r, step |-> i]]

\* a request reaches the middleware, which calls ensureInitialized
RequestArrives(r) ==
    /\ requests[r].pc = "idle"
    /\ LET path == ensureInitialized(initialized, initializationPromise)
       IN  CASE path = "return" ->
                  /\ requests' = [requests EXCEPT ![r] = [pc |-> "waiting", awaits |-> 0]]
                  /\ UNCHANGED <<initialized, initializationPromise, invoked>>
             [] path = "wait" ->
                  /\ requests' = [requests EXCEPT ![r] =
                                     [pc |-> "waiting", awaits |-> initializationPromise[1]]]
                  /\ UNCHANGED <<initialized, initializationPromise, invoked>>
             [] path = "start" ->
                  /\ initializationPromise' = Arr(r)
                  /\ Continue(r, stores, NextLoader(stores, 1))
    /\ UNCHANGED stores
    /\ UNCHANGED otherThanInit

\* the loader awaited by the initialization returns: the rows it has read,
\* or an empty value when its read has failed (the loaders catch every
\* error, so the catch block of ensureInitialized is never entered)
LoaderReturns(r) ==
    /\ requests[r].pc = "loading"
    /\ \E fault \in BOOLEAN :
         LET i == requests[r].step
             after == [stores EXCEPT ![i] = IF fault THEN "empty" ELSE "loaded"]
         IN  /\ stores' = after
             /\ Continue(r, after, NextLoader(after, i + 1))
    /\ UNCHANGED initializationPromise
    /\ UNCHANGED otherThanInit

\* the await of the middleware ends once the promise it waits on has
\* settled: next() hands the request to its handler
MiddlewareNext(r) ==
    /\ requests[r].pc = "waiting"
    /\ IF requests[r].awaits = 0 THEN TRUE ELSE Settled(requests[r].awaits)
    /\ requests' = [requests EXCEPT ![r] = [pc |-> "handler", awaits |-> @.awaits,
                                            initialized |-> initialized]]
    /\ UNCHANGED <<initialized, initializationPromise, stores, invoked>>
    /\ UNCHANGED otherThanInit

\* the handler answers the request
HandlerAnswers(r) ==
    /\ requests[r].pc = "handler"
    /\ requests' = [requests EXCEPT ![r] = [@ EXCEPT !.pc = "answered"]]
    /\ UNCHANGED <<initialized, initializationPromise, stores, invoked>>
    /\ UNCHANGED otherThanInit

NextInit ==
    \/ \E r \in Requests : RequestArrives(r)
    \/ \E r \in Requests : LoaderReturns(r)
    \/ \E r \in Requests : MiddlewareNext(r)
    \/ \E r \in Requests : HandlerAnswers(r)

SpecInit == Init /\ [][NextInit]_vars

\* C30: under any interleaving of concurrent first requests, ensureInitialized
\* calls each of the three loaders at most once, every request that waits
\* for the initialization waits on the one promise of initializationPromise,
\* and no handler behind the middleware starts before initialized is true.
C30_InitializedOnce ==
    /\ \A i \in 1..Len(Stores) : invoked[i] <= 1
    /\ \A r \in Requests :
          (requests[r].pc \in {"loading", "waiting"} /\ requests[r].awaits # 0)
             => initializationPromise = Arr(requests[r].awaits)
    /\ \A r \in Requests :
          requests[r].pc \in {"handler", "answered"}
             => (requests[r].initialized /\ initialized /\ \A i \in 1..Len(Stores) : stores[i] # "null")

\* two requests have waited on the initialization a third one started, the
\* three loaders have been called, and a handler of a waiting request runs
C30_Witness ==
    /\ \A i \in 1..Len(Stores) : invoked[i] = 1
    /\ \E r, q \in Requests :
          /\ r # q
          /\ requests[r].pc = "handler" /\ requests[r].awaits \notin {0, r}
          /\ requests[q].pc = "waiting" /\ requests[q].awaits = requests[r].awaits

====
